---- MODULE Spec2Model ----
(***************************************************************************)
(* Offline-first synchronisation core of WYRD-LEDGER: the operation queue  *)
(* kept in localStorage (lib/offlineQueue.ts), the SyncProvider context    *)
(* (contexts/SyncContext.tsx) and its connectivity listener.               *)
(*                                                                         *)
(* JavaScript is single threaded: one action is the code that runs between *)
(* two suspension points (a call up to its first await, or the code after  *)
(* an awaited promise settles up to the next await or the return).         *)
(***************************************************************************)
EXTENDS Integers, Sequences, FiniteSets, TLC

VARIABLES
    appConfig,          \* lib/config.ts: appConfig.maxQueueSize, appConfig.maxRetries
    db,                 \* lib/firebase.ts: TRUE iff the Firestore handle db is non-null
    user,               \* useAuth().user: NoUser or the uid of the principal
    mounted,            \* the SyncProvider component is rendered
    listener,           \* the onSnapshot subscriptions not yet unsubscribed
    queue,              \* localStorage[offlineQueueKey], as getQueuedOperations() reads it
    nextId,             \* stands for crypto.randomUUID(): the next fresh id
    nSaves,             \* number of saveData calls made so far
    remote,             \* Firestore users/{uid}/data/{collection}
    status,             \* useState<SyncStatus>
    isConnected,        \* useState(false)
    lastSynced,         \* useState<Date | null>: "null" or "date"
    pendingOperations,  \* useState(0)
    isProcessingQueue,  \* useRef(false)
    saves,              \* saveData calls suspended at `await saveDataInternal`
    drains,             \* processQueue calls suspended at `await saveDataInternal`
    effectDue,          \* the drain-trigger effect has a changed dependency and will run
    edge,               \* isConnected went from false to true since that effect last ran
    local,              \* localStorage: the collection stored under each of STORAGE_KEYS
    calls,              \* sync / restore / resetAllData calls suspended at an await
    orphans,            \* remote writes still in flight whose page has been unloaded
    nClicks,            \* number of Settings page actions (sync, restore, reset) so far
    replays,            \* replays issued so far for each operation queued or being drained
    ev                  \* the last step taken: which function ran and how it ended

vars == <<appConfig, db, user, mounted, listener, queue, nextId, nSaves, remote, status, isConnected,
          lastSynced, pendingOperations, isProcessingQueue, saves, drains, effectDue,
          edge, local, calls, orphans, nClicks, replays, ev>>

(***************************************************************************)
(* Program constants and model bounds.                                     *)
(***************************************************************************)
MaxQueueSize == 50
MaxRetries == 3

\* appConfig.maxQueueSize of the specification Spec: the cap is scaled down so
\* that a full queue and its eviction are reachable together with drains.
QueueCap == 2
\* number of saveData calls that may end in the queue in one behaviour of Spec
MaxSaves == 3
\* saveData calls in flight together
MaxInflight == 1
\* processQueue activations the model can hold (the guard admits only one)
MaxDrains == 2
\* retryCount up to which the direct incrementRetryCount call of SpecQ is taken
MaxRetryCount == 3
\* appConfig.maxQueueSize of the specification SpecQ, whose saveData calls number
\* one more than the cap, so that the queue fills and evicts once
QueueCapQ == 1
\* number of enqueues of SpecFill, which runs with the real maxQueueSize
MaxFill == 102
\* sync / restore / resetAllData calls in flight together
MaxCalls == 1
\* remote writes of unloaded pages still in flight
MaxOrphans == 2
\* Settings page actions in one behaviour
MaxClicks == 1
\* longest queue handed to the functions of lib/offlineQueue.ts in SpecPure
MaxLen == 3
\* the record of a snapshot another device left in the remote store
RemoteItem == 1
\* saveData calls in one behaviour of SpecFetch
MaxFetchSaves == 2
\* saveData calls in flight together in SpecRace
MaxRace == 2
\* saveData calls made by the page effects in one behaviour of SpecPages
MaxPageSaves == 2

NoUser == "none"
Users == {"u1"}
\* the collection names that have a localStorage key
STORAGE_KEYS == {"products", "customers", "settings", "bankAccounts"}
\* the ids of the documents of users/{uid}/data: those names, and one without a key
Collections == STORAGE_KEYS \cup {"invoices"}
\* A payload is a whole collection snapshot, an array of opaque records.  Every
\* mutation of a page makes a new snapshot: the n-th saveData call carries Snapshot(n).
Snapshot(n) == <<n>>
\* the collections whose page calls saveData in the specifications below
SaveCollections == {"products"}
\* the collections a page keeps and saves from an effect
PageCollections == {"products", "customers"}

NoPartition == [present |-> FALSE, items |-> <<>>]
Partition(items) == [present |-> TRUE, items |-> items]

isFirebaseConfigured == TRUE

(***************************************************************************)
(* lib/offlineQueue.ts                                                     *)
(*                                                                         *)
(* The queue is the JSON array stored under appConfig.offlineQueueKey.     *)
(* Its entries are JSON values, which JSON.stringify and JSON.parse give   *)
(* back unchanged, and localStorage.setItem is taken to succeed: the       *)
(* functions below are those of the module with operations standing for    *)
(* the stored array they read, their result for the array they store.      *)
(* The id of crypto.randomUUID() is a fresh number, timestamp is left out. *)
(***************************************************************************)
getQueuedOperations == queue

QueuedOperation(op, id) ==
    [id |-> id, type |-> op.type, collection |-> op.collection, data |-> op.data,
     retryCount |-> 0]

\* variant: the new operation is pushed without the shift of line 49
queueOperationNoEvict(operations, op, id) ==
    Append(operations, QueuedOperation(op, id))

\* variant: at a full queue the new operation is the one dropped
queueOperationDropNew(operations, op, id) ==
    IF Len(operations) >= appConfig.maxQueueSize
    THEN operations
    ELSE Append(operations, QueuedOperation(op, id))

queueOperation(operations, op, id) ==
    LET kept == IF Len(operations) >= appConfig.maxQueueSize
                THEN Tail(operations)
                ELSE operations
    IN  Append(kept, QueuedOperation(op, id))

\* variant: the head is dropped, whatever its id
removeFromQueueHead(operations, id) ==
    IF operations = <<>> THEN operations ELSE Tail(operations)

removeFromQueue(operations, id) ==
    SelectSeq(operations, LAMBDA o : o.id # id)

\* variant: the map of line 87 without its test of the id
incrementRetryCountAll(operations, id) ==
    [k \in 1..Len(operations) |-> [operations[k] EXCEPT !.retryCount = @ + 1]]

incrementRetryCount(operations, id) ==
    [k \in 1..Len(operations) |->
        IF operations[k].id = id
        THEN [operations[k] EXCEPT !.retryCount = @ + 1]
        ELSE operations[k]]

clearQueue == <<>>

\* variant: <= for < in line 99
shouldRetryOffByOne(op) == op.retryCount <= appConfig.maxRetries

shouldRetry(op) == op.retryCount < appConfig.maxRetries

SaveOp(c, d) == [type |-> "save", collection |-> c, data |-> d]


(***************************************************************************)
(* Bookkeeping of the last step.  fn names the function that ran; done     *)
(* says that its invocation returned in this step and outcome how its      *)
(* promise settled; commit is the result of the batch.commit() the step    *)
(* resumed from; toast is the notification it emitted; arg is the id passed *)
(* to a function of lib/offlineQueue.ts called directly, or the count the  *)
(* toast of a finished drain shows; by is "effect"                         *)
(* when the drain-trigger effect made the call; name is the collection a   *)
(* save or fetch is about, result the payload a save wrote or the value a  *)
(* fetch returned, and after the payload of the save that resolved in the  *)
(* step just before a fetch was called.                                    *)
(***************************************************************************)
\* a value of type Record<string, unknown>[] | null
Null == [null |-> TRUE, items |-> <<>>]
Result(items) == [null |-> FALSE, items |-> items]

Ev(fn) ==
    [fn |-> fn, done |-> FALSE, outcome |-> "pending", commit |-> "none",
     attempts |-> 0, toast |-> "none", arg |-> 0, by |-> "call",
     name |-> "", result |-> Null, after |-> NoPartition]

RemoveAt(s, k) == SubSeq(s, 1, k - 1) \o SubSeq(s, k + 1, Len(s))

Ids(operations) == {operations[k].id : k \in 1..Len(operations)}

\* the operations a replay can still be issued for: those queued and those in the
\* snapshot of a drain in progress
Tracked(q, ds) == Ids(q) \cup UNION {Ids(ds[k].operations) : k \in 1..Len(ds)}

\* replays after a step that issued the replay of the operations in issued
Replayed(issued) ==
    [id \in Tracked(queue', drains') |->
        (IF id \in DOMAIN replays THEN replays[id] ELSE 0)
            + (IF id \in issued THEN 1 ELSE 0)]

\* dependencies of the drain-trigger effect: [isConnected, pendingOperations, processQueue],
\* processQueue being a new callback whenever user changes
DepsChanged ==
    \/ isConnected' # isConnected
    \/ pendingOperations' # pendingOperations
    \/ user' # user

\* setIsConnected(true) of line 75 while isConnected is false
Rose == ~isConnected /\ isConnected'

(***************************************************************************)
(* contexts/SyncContext.tsx: saveData and saveDataInternal                 *)
(***************************************************************************)
\* the call, up to `return` (no db or user) or to `await batch.commit()`
saveData(c, d) ==
    IF ~db \/ user = NoUser
    THEN /\ queue' = queueOperation(getQueuedOperations, SaveOp(c, d), nextId)
         /\ nextId' = nextId + 1
         /\ pendingOperations' = pendingOperations + 1
         /\ ev' = [Ev("saveData") EXCEPT !.done = TRUE, !.outcome = "resolved",
                       !.toast = "Offline - changes queued"]
         /\ UNCHANGED <<appConfig, nClicks, calls, orphans, db, user, listener, remote, status, isConnected,
                        lastSynced, isProcessingQueue, saves, drains>>
         /\ replays' = Replayed({})
         /\ effectDue' = (effectDue \/ DepsChanged)
         /\ edge' = (edge \/ Rose)
         /\ UNCHANGED mounted
    ELSE /\ status' = "syncing"
         /\ saves' = Append(saves, [collection |-> c, data |-> d, uid |-> user,
                                    attempts |-> 1])
         /\ ev' = [Ev("saveData") EXCEPT !.attempts = 1]
         /\ UNCHANGED <<appConfig, nClicks, calls, orphans, replays, db, user, listener, queue, nextId, remote,
                        isConnected, lastSynced, pendingOperations, isProcessingQueue,
                        drains>>
         /\ effectDue' = (effectDue \/ DepsChanged)
         /\ edge' = (edge \/ Rose)
         /\ UNCHANGED mounted

\* a page calls saveData with its new snapshot, for the n-th time at most and
\* with fewer than m calls in flight
SaveDataCallWithin(n, m) ==
    \E c \in SaveCollections :
        /\ Len(saves) < m
        /\ nSaves < n
        /\ nSaves' = nSaves + 1
        /\ local' = [local EXCEPT ![c] = Partition(Snapshot(nSaves + 1))]
        /\ saveData(c, Snapshot(nSaves + 1))

SaveDataCallUpTo(n) == SaveDataCallWithin(n, MaxInflight)

SaveDataCall == SaveDataCallUpTo(MaxSaves)

\* pages/Products.tsx lines 212-219, pages/Customers.tsx lines 808-815: the
\* collection of the page has changed to d; the effect stores it and, when it is
\* not empty, calls saveData
SaveEffect ==
    \E c \in PageCollections, d \in {<<>>, Snapshot(nSaves + 1)} :
        /\ Len(saves) < MaxInflight
        /\ nSaves < MaxPageSaves
        /\ local[c] # Partition(d)
        /\ local' = [local EXCEPT ![c] = Partition(d)]
        /\ IF Len(d) > 0
           THEN /\ nSaves' = nSaves + 1
                /\ saveData(c, d)
           ELSE /\ ev' = [Ev("saveEffect") EXCEPT !.done = TRUE, !.outcome = "resolved",
                              !.name = c]
                /\ UNCHANGED <<appConfig, nClicks, calls, orphans, replays, db, user, listener,
                               queue, nextId, nSaves, remote, status, isConnected, lastSynced,
                               pendingOperations, isProcessingQueue, saves, drains>>
                /\ effectDue' = (effectDue \/ DepsChanged)
                /\ edge' = (edge \/ Rose)
                /\ UNCHANGED mounted

\* a caller passes saveData any payload, the empty array included
SaveDataAnyCall ==
    \E c \in SaveCollections, d \in {<<>>, Snapshot(nSaves + 1)} :
        /\ Len(saves) < MaxInflight
        /\ nSaves < MaxFetchSaves
        /\ nSaves' = nSaves + 1
        /\ local' = [local EXCEPT ![c] = Partition(d)]
        /\ saveData(c, d)

\* variant: saveDataInternal without setLastSynced (line 101)
SaveDataResolveNoStamp(k) ==
    LET s == saves[k] IN
    /\ remote' = [remote EXCEPT ![s.uid][s.collection] = Partition(s.data)]
    /\ status' = "synced"
    /\ saves' = RemoveAt(saves, k)
    /\ ev' = [Ev("saveData") EXCEPT !.done = TRUE, !.outcome = "resolved",
                  !.commit = "ok", !.attempts = s.attempts]
    /\ UNCHANGED <<appConfig, nClicks, local, calls, orphans, replays, db, user, listener, queue, nextId, nSaves, isConnected,
                   lastSynced, pendingOperations, isProcessingQueue, drains>>
    /\ effectDue' = (effectDue \/ DepsChanged)
    /\ edge' = (edge \/ Rose)
    /\ UNCHANGED mounted

\* variant: the commit leaves a document alone that holds a later snapshot
SaveDataResolveNewest(k) ==
    LET s  == saves[k]
        at == remote[s.uid][s.collection]
    IN
    /\ remote' = [remote EXCEPT ![s.uid][s.collection] =
                      IF at.present /\ at.items # <<>> /\ s.data # <<>>
                            /\ at.items[1] > s.data[1]
                      THEN at ELSE Partition(s.data)]
    /\ lastSynced' = "date"
    /\ status' = "synced"
    /\ saves' = RemoveAt(saves, k)
    /\ ev' = [Ev("saveData") EXCEPT !.done = TRUE, !.outcome = "resolved",
                  !.commit = "ok", !.attempts = s.attempts,
                  !.name = s.collection, !.result = Result(s.data)]
    /\ UNCHANGED <<appConfig, nClicks, local, calls, orphans, replays, db, user, listener, queue, nextId, nSaves, isConnected,
                   pendingOperations, isProcessingQueue, drains>>
    /\ effectDue' = (effectDue \/ DepsChanged)
    /\ edge' = (edge \/ Rose)
    /\ UNCHANGED mounted

\* batch.commit() resolved: saveDataInternal lines 101-102, then saveData returns
SaveDataResolve(k) ==
    LET s == saves[k] IN
    /\ remote' = [remote EXCEPT ![s.uid][s.collection] = Partition(s.data)]
    /\ lastSynced' = "date"
    /\ status' = "synced"
    /\ saves' = RemoveAt(saves, k)
    /\ ev' = [Ev("saveData") EXCEPT !.done = TRUE, !.outcome = "resolved",
                  !.commit = "ok", !.attempts = s.attempts,
                  !.name = s.collection, !.result = Result(s.data)]
    /\ UNCHANGED <<appConfig, nClicks, local, calls, orphans, replays, db, user, listener, queue, nextId, nSaves, isConnected,
                   pendingOperations, isProcessingQueue, drains>>
    /\ effectDue' = (effectDue \/ DepsChanged)
    /\ edge' = (edge \/ Rose)
    /\ UNCHANGED mounted

\* variant: saveData without its try/catch, the error of the commit propagates
SaveDataRejectRethrow(k) ==
    /\ saves' = RemoveAt(saves, k)
    /\ ev' = [Ev("saveData") EXCEPT !.done = TRUE, !.outcome = "rejected",
                  !.commit = "fail", !.attempts = saves[k].attempts]
    /\ UNCHANGED <<appConfig, nClicks, local, calls, orphans, replays, db, user, listener, queue, nextId, nSaves, remote, status,
                   isConnected, lastSynced, pendingOperations, isProcessingQueue, drains>>
    /\ effectDue' = (effectDue \/ DepsChanged)
    /\ edge' = (edge \/ Rose)
    /\ UNCHANGED mounted

\* variant: the catch block commits the batch once more instead of queueing
SaveDataRejectRetryInline(k) ==
    /\ saves' = [saves EXCEPT ![k].attempts = @ + 1]
    /\ ev' = [Ev("saveData") EXCEPT !.commit = "fail", !.attempts = saves[k].attempts + 1]
    /\ UNCHANGED <<appConfig, nClicks, local, calls, orphans, replays, db, user, listener, queue, nextId, nSaves, remote, status,
                   isConnected, lastSynced, pendingOperations, isProcessingQueue, drains>>
    /\ effectDue' = (effectDue \/ DepsChanged)
    /\ edge' = (edge \/ Rose)
    /\ UNCHANGED mounted

\* batch.commit() rejected: the catch block of saveData, lines 124-139
SaveDataReject(k) ==
    LET s == saves[k] IN
    /\ queue' = queueOperation(getQueuedOperations, SaveOp(s.collection, s.data), nextId)
    /\ nextId' = nextId + 1
    /\ pendingOperations' = pendingOperations + 1
    /\ status' = "offline"
    /\ saves' = RemoveAt(saves, k)
    /\ ev' = [Ev("saveData") EXCEPT !.done = TRUE, !.outcome = "resolved",
                  !.commit = "fail", !.attempts = s.attempts,
                  !.toast = "Save failed - queued for later"]
    /\ UNCHANGED <<appConfig, nClicks, local, calls, orphans, db, user, listener, nSaves, remote, isConnected,
                   lastSynced, isProcessingQueue, drains>>
    /\ replays' = Replayed({})
    /\ effectDue' = (effectDue \/ DepsChanged)
    /\ edge' = (edge \/ Rose)
    /\ UNCHANGED mounted

SaveDataSettle ==
    \E k \in 1..Len(saves) : SaveDataResolve(k) \/ SaveDataReject(k)


(***************************************************************************)
(* contexts/SyncContext.tsx: processQueue                                  *)
(***************************************************************************)
\* variant: line 144 without the test of isProcessingQueue.current
processQueueGuardNoFlag == ~db \/ user = NoUser

\* variant: line 144 without the test of user
processQueueGuardNoUser == ~db \/ isProcessingQueue

\* line 144: the call returns at once when this holds
processQueueGuard == ~db \/ user = NoUser \/ isProcessingQueue

\* The for loop of lines 152-169 from index i on, up to its next await or its end.
\* q is the stored queue; operations is the snapshot taken at line 146.
RECURSIVE RunLoop(_, _, _)
RunLoop(q, operations, i) ==
    IF i > Len(operations)
    THEN [queue |-> q, i |-> i, awaiting |-> FALSE]
    ELSE IF ~shouldRetry(operations[i])
    THEN RunLoop(removeFromQueue(q, operations[i].id), operations, i + 1)
    ELSE IF operations[i].type = "save" /\ operations[i].collection # ""
    THEN [queue |-> q, i |-> i, awaiting |-> TRUE]
    ELSE RunLoop(q, operations, i + 1)

\* variant: processQueue ends without line 173
DrainRunKeepsFlag(others, d, q, i, sc, flag, e) ==
    LET r == RunLoop(q, d.operations, i) IN
    /\ queue' = r.queue
    /\ IF r.awaiting
       THEN /\ drains' = Append(others, [d EXCEPT !.i = r.i, !.successCount = sc])
            /\ isProcessingQueue' = flag
            /\ ev' = e
            /\ UNCHANGED pendingOperations
       ELSE /\ drains' = others
            /\ pendingOperations' = Len(r.queue)
            /\ isProcessingQueue' = flag
            /\ ev' = [e EXCEPT !.done = TRUE, !.outcome = "resolved",
                          !.toast = IF sc > 0 THEN "Sync complete" ELSE "none",
                          !.arg = sc]
    /\ replays' = Replayed(IF r.awaiting THEN {d.operations[r.i].id} ELSE {})

\* An activation of processQueue is a record of its snapshot operations, the index i
\* it is at, its successCount and the user of its closure, together with the index
\* lastOk of the operation it last replayed with success, the number of saveData
\* calls made when it started (since) and whether none was in flight then (quiet).
\* One activation d of processQueue runs on from index i with stored queue q and
\* successCount sc, while the activations in others stay suspended: it suspends
\* at the next replay, or ends with lines 171-180.  flag is the value of
\* isProcessingQueue.current while it runs (set by line 149 when it starts).
DrainRun(others, d, q, i, sc, flag, e) ==
    LET r == RunLoop(q, d.operations, i) IN
    /\ queue' = r.queue
    /\ IF r.awaiting
       THEN /\ drains' = Append(others, [d EXCEPT !.i = r.i, !.successCount = sc])
            /\ isProcessingQueue' = flag
            /\ ev' = e
            /\ UNCHANGED pendingOperations
       ELSE /\ drains' = others
            /\ pendingOperations' = Len(r.queue)
            /\ isProcessingQueue' = FALSE
            /\ ev' = [e EXCEPT !.done = TRUE, !.outcome = "resolved",
                          !.toast = IF sc > 0 THEN "Sync complete" ELSE "none",
                          !.arg = sc]
    /\ replays' = Replayed(IF r.awaiting THEN {d.operations[r.i].id} ELSE {})

\* the call of processQueue, up to its return or its first await
processQueueBy(by) ==
    IF processQueueGuard \/ Len(getQueuedOperations) = 0
    THEN /\ ev' = [Ev("processQueue") EXCEPT !.done = TRUE, !.outcome = "resolved",
                                             !.by = by]
         /\ UNCHANGED <<queue, drains, pendingOperations, isProcessingQueue, replays>>
    ELSE DrainRun(drains,
                  [operations |-> getQueuedOperations, i |-> 0, successCount |-> 0,
                   uid |-> user, lastOk |-> 0, since |-> nSaves,
                   quiet |-> (saves = <<>>)],
                  getQueuedOperations, 1, 0, TRUE, [Ev("processQueue") EXCEPT !.by = by])

processQueue == processQueueBy("call")

\* a consumer of the context calls processQueue()
ProcessQueueCall ==
    /\ Len(drains) < MaxDrains
    /\ processQueue
    /\ UNCHANGED <<appConfig, nClicks, local, calls, orphans, db, user, listener, nextId, nSaves, remote, status, isConnected,
                   lastSynced, saves>>
    /\ effectDue' = (effectDue \/ DepsChanged)
    /\ edge' = (edge \/ Rose)
    /\ UNCHANGED mounted

\* lines 184-188: the effect runs after a render in which a dependency changed
DrainTriggerEffect ==
    /\ mounted
    /\ effectDue
    /\ Len(drains) < MaxDrains
    /\ IF isConnected /\ pendingOperations > 0
       THEN processQueueBy("effect")
       ELSE /\ ev' = [Ev("effect") EXCEPT !.done = TRUE, !.outcome = "resolved"]
            /\ UNCHANGED <<queue, drains, pendingOperations, isProcessingQueue, replays>>
    /\ UNCHANGED <<appConfig, nClicks, local, calls, orphans, db, user, listener, nextId, nSaves, remote, status, isConnected,
                   lastSynced, saves>>
    /\ effectDue' = DepsChanged
    /\ edge' = FALSE
    /\ UNCHANGED mounted

\* variant: the replay merges its payload into the document (set with merge)
DrainReplayResolveMerge(k) ==
    LET d  == drains[k]
        op == d.operations[d.i]
    IN
    /\ remote' = [remote EXCEPT ![d.uid][op.collection] = Partition(@.items \o op.data)]
    /\ lastSynced' = "date"
    /\ status' = "synced"
    /\ DrainRun(RemoveAt(drains, k), [d EXCEPT !.lastOk = d.i],
                removeFromQueue(getQueuedOperations, op.id),
                d.i + 1, d.successCount + 1, isProcessingQueue,
                [Ev("replay") EXCEPT !.commit = "ok"])
    /\ UNCHANGED <<appConfig, nClicks, local, calls, orphans, db, user, listener, nextId, nSaves, isConnected, saves>>
    /\ effectDue' = (effectDue \/ DepsChanged)
    /\ edge' = (edge \/ Rose)
    /\ UNCHANGED mounted

\* the replay of drains[k] resolved: saveDataInternal lines 101-102, then lines 162-163
DrainReplayResolve(k) ==
    LET d  == drains[k]
        op == d.operations[d.i]
    IN
    /\ remote' = [remote EXCEPT ![d.uid][op.collection] = Partition(op.data)]
    /\ lastSynced' = "date"
    /\ status' = "synced"
    /\ DrainRun(RemoveAt(drains, k), [d EXCEPT !.lastOk = d.i],
                removeFromQueue(getQueuedOperations, op.id),
                d.i + 1, d.successCount + 1, isProcessingQueue,
                [Ev("replay") EXCEPT !.commit = "ok"])
    /\ UNCHANGED <<appConfig, nClicks, local, calls, orphans, db, user, listener, nextId, nSaves, isConnected, saves>>
    /\ effectDue' = (effectDue \/ DepsChanged)
    /\ edge' = (edge \/ Rose)
    /\ UNCHANGED mounted

\* variant: a failed replay leaves the loop (a break in the catch block)
DrainReplayRejectBreak(k) ==
    LET d  == drains[k]
        op == d.operations[d.i]
    IN
    /\ DrainRun(RemoveAt(drains, k), d, incrementRetryCount(getQueuedOperations, op.id),
                Len(d.operations) + 1, d.successCount, isProcessingQueue,
                [Ev("replay") EXCEPT !.commit = "fail"])
    /\ UNCHANGED <<appConfig, nClicks, local, calls, orphans, db, user, listener, nextId, nSaves, remote, status,
                   isConnected, lastSynced, saves>>
    /\ effectDue' = (effectDue \/ DepsChanged)
    /\ edge' = (edge \/ Rose)
    /\ UNCHANGED mounted

\* the replay of drains[k] rejected: the catch block, lines 165-168
DrainReplayReject(k) ==
    LET d  == drains[k]
        op == d.operations[d.i]
    IN
    /\ DrainRun(RemoveAt(drains, k), d, incrementRetryCount(getQueuedOperations, op.id),
                d.i + 1, d.successCount, isProcessingQueue,
                [Ev("replay") EXCEPT !.commit = "fail"])
    /\ UNCHANGED <<appConfig, nClicks, local, calls, orphans, db, user, listener, nextId, nSaves, remote, status, isConnected,
                   lastSynced, saves>>
    /\ effectDue' = (effectDue \/ DepsChanged)
    /\ edge' = (edge \/ Rose)
    /\ UNCHANGED mounted

DrainReplaySettle ==
    \E k \in 1..Len(drains) : DrainReplayResolve(k) \/ DrainReplayReject(k)

(***************************************************************************)
(* contexts/SyncContext.tsx: the connection effect, lines 62-84            *)
(***************************************************************************)
NoListener == {}

\* lines 69-81: the subscription to users/{u}
onSnapshot(u) == [uid |-> u, live |-> TRUE]

\* variant: the effect returns no cleanup
unsubscribeNever(u) == listener

\* line 83: the cleanup of the effect run made for u ends the subscription of that run
unsubscribe(u) == {s \in listener : s.uid # u}

\* lines 63-81: the body of the effect, run for u over the subscriptions subs
connectionEffect(u, subs) ==
    IF ~isFirebaseConfigured \/ ~db \/ u = NoUser
    THEN /\ status' = "offline"
         /\ isConnected' = FALSE
         /\ listener' = subs
    ELSE /\ listener' = subs \cup {onSnapshot(u)}
         /\ UNCHANGED <<status, isConnected>>

\* useAuth() delivers another user, one of P or none: the cleanup of the last run
\* is called, then the effect runs again
AuthChangeAmong(P) ==
    \E u \in (P \cup {NoUser}) \ {user} :
        /\ mounted
        /\ user' = u
        /\ connectionEffect(u, unsubscribe(user))
        /\ ev' = Ev("connectionEffect")
        /\ UNCHANGED <<appConfig, nClicks, local, calls, orphans, replays, db, queue, nextId, nSaves, remote, lastSynced,
                       pendingOperations, isProcessingQueue, saves, drains>>
        /\ effectDue' = (effectDue \/ DepsChanged)
        /\ edge' = (edge \/ Rose)
        /\ UNCHANGED mounted

AuthChange == AuthChangeAmong(Users)

\* variant: the error callback leaves the state as it is
SnapshotErrorIgnored ==
    \E s \in listener :
        /\ s.live
        /\ listener' = (listener \ {s}) \cup {[s EXCEPT !.live = FALSE]}
        /\ ev' = Ev("onSnapshotError")
        /\ UNCHANGED <<appConfig, nClicks, local, calls, orphans, replays, db, user, queue, nextId, nSaves, remote, lastSynced,
                       pendingOperations, isProcessingQueue, saves, drains, status, isConnected>>
        /\ effectDue' = (effectDue \/ DepsChanged)
        /\ edge' = (edge \/ Rose)
        /\ UNCHANGED mounted

\* lines 72-75: a subscription delivers a snapshot
SnapshotNext ==
    \E s \in listener :
        /\ s.live
        /\ isConnected' = TRUE
        /\ status' = "synced"
        /\ ev' = Ev("onSnapshot")
        /\ UNCHANGED <<appConfig, nClicks, local, calls, orphans, replays, db, user, listener, queue, nextId, nSaves, remote, lastSynced,
                       pendingOperations, isProcessingQueue, saves, drains>>
        /\ effectDue' = (effectDue \/ DepsChanged)
        /\ edge' = (edge \/ Rose)
        /\ UNCHANGED mounted

\* lines 76-80: a subscription fails; Firestore delivers nothing more to it
SnapshotError ==
    \E s \in listener :
        /\ s.live
        /\ isConnected' = FALSE
        /\ status' = "offline"
        /\ listener' = (listener \ {s}) \cup {[s EXCEPT !.live = FALSE]}
        /\ ev' = Ev("onSnapshotError")
        /\ UNCHANGED <<appConfig, nClicks, local, calls, orphans, replays, db, user, queue, nextId, nSaves, remote, lastSynced,
                       pendingOperations, isProcessingQueue, saves, drains>>
        /\ effectDue' = (effectDue \/ DepsChanged)
        /\ edge' = (edge \/ Rose)
        /\ UNCHANGED mounted

\* the provider is removed from the tree: React calls the cleanup of line 83
Unmount ==
    /\ mounted
    /\ mounted' = FALSE
    /\ listener' = unsubscribe(user)
    /\ ev' = Ev("unmount")
    /\ UNCHANGED <<appConfig, nClicks, local, calls, orphans, replays, db, user, queue, nextId, nSaves, remote, status,
                   isConnected, lastSynced, pendingOperations, isProcessingQueue, saves, drains,
                   effectDue, edge>>

\* the provider is rendered again: lines 50-54 give the state its initial values,
\* the effects of lines 57-59 and 62-84 run
Mount ==
    /\ ~mounted
    /\ mounted' = TRUE
    /\ lastSynced' = "null"
    /\ pendingOperations' = Len(getQueuedOperations)
    /\ isProcessingQueue' = FALSE
    /\ IF ~isFirebaseConfigured \/ ~db \/ user = NoUser
       THEN listener' = listener
       ELSE listener' = listener \cup {onSnapshot(user)}
    /\ status' = "offline"
    /\ isConnected' = FALSE
    /\ ev' = Ev("mount")
    /\ effectDue' = FALSE
    /\ edge' = FALSE
    /\ UNCHANGED <<appConfig, nClicks, local, calls, orphans, replays, db, user, queue, nextId, nSaves, remote,
                   saves, drains>>

(***************************************************************************)
(* window.location.reload(): the page is unloaded and the application      *)
(* mounts again over the localStorage left behind.  The promises of the    *)
(* old page never continue; the remote writes they had in flight may still *)
(* reach the server.                                                       *)
(***************************************************************************)
NoWrites == [c \in Collections |-> NoPartition]

\* a remote write in flight: the documents it sets and those it deletes
Write(uid, sets, dels) == [uid |-> uid, sets |-> sets, dels |-> dels]

Only(c, items) == [NoWrites EXCEPT ![c] = Partition(items)]

\* the remote store of uid after the documents of sets are set and those of dels deleted
Applied(uid, sets, dels) ==
    [remote EXCEPT ![uid] =
        [c \in Collections |->
            IF c \in dels THEN NoPartition
            ELSE IF sets[c].present THEN sets[c]
            ELSE @[c]]]

\* the remote writes of the promises in flight, cs being the explicit calls suspended
InFlightOf(cs) ==
    [k \in 1..Len(saves) |-> Write(saves[k].uid, Only(saves[k].collection, saves[k].data), {})]
    \o [k \in 1..Len(drains) |->
          LET op == drains[k].operations[drains[k].i]
          IN  Write(drains[k].uid, Only(op.collection, op.data), {})]
    \o [k \in 1..Len(cs) |-> Write(cs[k].uid, cs[k].batch, cs[k].docs)]

InFlight == InFlightOf(calls)

\* those of ws that change a document
Writes(ws) ==
    SelectSeq(ws, LAMBDA w : w.dels # {} \/ \E c \in Collections : w.sets[c].present)

InFlightWrites == Writes(InFlight)

\* the page reloads over the stored queue q and localStorage store, leaving the
\* remote writes ws in flight
ReloadLeaving(q, store, ws) ==
    /\ Len(orphans) + Len(ws) <= MaxOrphans
    /\ queue' = q
    /\ local' = store
    /\ orphans' = orphans \o ws
    /\ user' = NoUser
    /\ listener' = NoListener
    /\ status' = "offline"
    /\ isConnected' = FALSE
    /\ lastSynced' = "null"
    /\ pendingOperations' = Len(q)
    /\ isProcessingQueue' = FALSE
    /\ saves' = <<>>
    /\ drains' = <<>>
    /\ calls' = <<>>
    /\ effectDue' = FALSE
    /\ edge' = FALSE
    /\ UNCHANGED mounted
    /\ replays' = Replayed({})
    /\ UNCHANGED <<appConfig, db, nextId, nSaves>>

Reload(q, store) == ReloadLeaving(q, store, InFlightWrites)

\* a write of an unloaded page reaches the server (its deletes one by one) or is lost
OrphanSettle ==
    \E k \in 1..Len(orphans) :
        /\ orphans' = RemoveAt(orphans, k)
        /\ \/ \E D \in SUBSET orphans[k].dels :
                remote' = Applied(orphans[k].uid, orphans[k].sets, D)
           \/ remote' = remote
        /\ ev' = Ev("orphan")
        /\ UNCHANGED <<appConfig, nClicks, db, user, listener, queue, nextId, nSaves, status,
                       isConnected, lastSynced, pendingOperations, isProcessingQueue,
                       saves, drains, effectDue, edge, local, calls, replays, mounted>>

(***************************************************************************)
(* contexts/SyncContext.tsx: sync, with its callers in pages/Settings.tsx  *)
(***************************************************************************)
\* an explicit call suspended at an await: fn and stage say where, batch is the
\* write batch of sync, docs the documents resetAllData is deleting
Call(fn, stage, by, batch, docs) ==
    [fn |-> fn, stage |-> stage, by |-> by, uid |-> user, batch |-> batch, docs |-> docs]

\* sync(), up to its return (no db or user) or to `await batch.commit()`; store is
\* localStorage as the loop of lines 208-218 reads it
sync(by, store) ==
    IF ~db \/ user = NoUser
    THEN /\ status' = "offline"
         /\ ev' = [Ev("sync") EXCEPT !.done = TRUE, !.outcome = "resolved",
                       !.toast = "Sync failed"]
         /\ UNCHANGED calls
    ELSE /\ status' = "syncing"
         /\ calls' = Append(calls, Call("sync", "commit", by, store, {}))
         /\ ev' = Ev("sync")

\* the Sync button
handleSync ==
    /\ Len(calls) < MaxCalls
    /\ nClicks < MaxClicks
    /\ nClicks' = nClicks + 1
    /\ sync("handleSync", local)
    /\ UNCHANGED <<appConfig, db, user, listener, queue, nextId, nSaves, remote,
                   isConnected, lastSynced, pendingOperations, isProcessingQueue,
                   saves, drains, local, orphans, replays>>
    /\ effectDue' = (effectDue \/ DepsChanged)
    /\ edge' = (edge \/ Rose)
    /\ UNCHANGED mounted

\* a bank account is added, changed or removed
saveBankAccountsWithSync ==
    /\ Len(calls) < MaxCalls
    /\ nClicks < MaxClicks
    /\ nClicks' = nClicks + 1
    /\ local' = [local EXCEPT !["bankAccounts"] = Partition(Snapshot(0))]
    /\ sync("saveBankAccountsWithSync", local')
    /\ UNCHANGED <<appConfig, db, user, listener, queue, nextId, nSaves, remote,
                   isConnected, lastSynced, pendingOperations, isProcessingQueue,
                   saves, drains, orphans, replays>>
    /\ effectDue' = (effectDue \/ DepsChanged)
    /\ edge' = (edge \/ Rose)
    /\ UNCHANGED mounted

\* variant: one set per collection instead of a batch, the commit failing after
\* the sets of some collections went through
SyncRejectPartial(k) ==
    /\ calls[k].fn = "sync"
    /\ \E c \in Collections :
          remote' = Applied(calls[k].uid, [NoWrites EXCEPT ![c] = calls[k].batch[c]], {})
    /\ status' = "offline"
    /\ calls' = RemoveAt(calls, k)
    /\ ev' = [Ev("sync") EXCEPT !.done = TRUE, !.outcome = "resolved",
                  !.commit = "fail", !.toast = "Sync failed"]
    /\ UNCHANGED <<appConfig, nClicks, db, user, listener, queue, nextId, nSaves,
                   isConnected, lastSynced, pendingOperations, isProcessingQueue,
                   saves, drains, local, orphans, replays>>
    /\ effectDue' = (effectDue \/ DepsChanged)
    /\ edge' = (edge \/ Rose)
    /\ UNCHANGED mounted

\* batch.commit() resolved: lines 221-227
SyncResolve(k) ==
    /\ calls[k].fn = "sync"
    /\ remote' = Applied(calls[k].uid, calls[k].batch, {})
    /\ lastSynced' = "date"
    /\ status' = "synced"
    /\ calls' = RemoveAt(calls, k)
    /\ ev' = [Ev("sync") EXCEPT !.done = TRUE, !.outcome = "resolved",
                  !.commit = "ok", !.toast = "Sync complete"]
    /\ UNCHANGED <<appConfig, nClicks, db, user, listener, queue, nextId, nSaves,
                   isConnected, pendingOperations, isProcessingQueue,
                   saves, drains, local, orphans, replays>>
    /\ effectDue' = (effectDue \/ DepsChanged)
    /\ edge' = (edge \/ Rose)
    /\ UNCHANGED mounted

\* variant: the catch block queues the failed push the way saveData does
SyncRejectQueued(k) ==
    /\ calls[k].fn = "sync"
    /\ queue' = queueOperation(getQueuedOperations, SaveOp("products", Snapshot(0)), nextId)
    /\ nextId' = nextId + 1
    /\ pendingOperations' = pendingOperations + 1
    /\ status' = "offline"
    /\ calls' = RemoveAt(calls, k)
    /\ ev' = [Ev("sync") EXCEPT !.done = TRUE, !.outcome = "resolved",
                  !.commit = "fail", !.toast = "Sync failed"]
    /\ UNCHANGED <<appConfig, nClicks, db, user, listener, nSaves, remote,
                   isConnected, lastSynced, isProcessingQueue,
                   saves, drains, local, orphans>>
    /\ replays' = Replayed({})
    /\ effectDue' = (effectDue \/ DepsChanged)
    /\ edge' = (edge \/ Rose)
    /\ UNCHANGED mounted

\* batch.commit() rejected: the catch block, lines 228-236
SyncReject(k) ==
    /\ calls[k].fn = "sync"
    /\ status' = "offline"
    /\ calls' = RemoveAt(calls, k)
    /\ ev' = [Ev("sync") EXCEPT !.done = TRUE, !.outcome = "resolved",
                  !.commit = "fail", !.toast = "Sync failed"]
    /\ UNCHANGED <<appConfig, nClicks, db, user, listener, queue, nextId, nSaves, remote,
                   isConnected, lastSynced, pendingOperations, isProcessingQueue,
                   saves, drains, local, orphans, replays>>
    /\ effectDue' = (effectDue \/ DepsChanged)
    /\ edge' = (edge \/ Rose)
    /\ UNCHANGED mounted

SyncSettle ==
    \E k \in 1..Len(calls) : SyncResolve(k) \/ SyncReject(k)

(***************************************************************************)
(* contexts/SyncContext.tsx: restore, called by handleRestore              *)
(***************************************************************************)
\* the Restore button: restore() up to its throw (no db or user) or to `await getDocs`
handleRestore ==
    /\ Len(calls) < MaxCalls
    /\ nClicks < MaxClicks
    /\ nClicks' = nClicks + 1
    /\ IF ~db \/ user = NoUser
       THEN /\ status' = "offline"
            /\ ev' = [Ev("restore") EXCEPT !.done = TRUE, !.outcome = "rejected"]
            /\ UNCHANGED calls
       ELSE /\ status' = "syncing"
            /\ calls' = Append(calls, Call("restore", "getDocs", "handleRestore", NoWrites, {}))
            /\ ev' = Ev("restore")
    /\ UNCHANGED <<appConfig, db, user, listener, queue, nextId, nSaves, remote,
                   isConnected, lastSynced, pendingOperations, isProcessingQueue,
                   saves, drains, local, orphans, replays>>
    /\ effectDue' = (effectDue \/ DepsChanged)
    /\ edge' = (edge \/ Rose)
    /\ UNCHANGED mounted

\* variant: line 255 without its test of storageKey
RestoredUnmapped(docs) ==
    [c \in Collections |-> IF docs[c].present THEN docs[c] ELSE local[c]]

\* localStorage after lines 252-261 copied the documents docs into it
Restored(docs) ==
    [c \in Collections |->
        IF c \in STORAGE_KEYS /\ docs[c].present THEN docs[c] ELSE local[c]]

\* variant: the reload after a restore starts from an empty queue
RestoreResolveClearsQueue(k) ==
    /\ calls[k].fn = "restore"
    /\ ev' = [Ev("restore") EXCEPT !.done = TRUE, !.outcome = "resolved",
                  !.commit = "ok", !.toast = "Restore complete"]
    /\ UNCHANGED <<remote, nClicks>>
    /\ Reload(clearQueue, Restored(remote[calls[k].uid]))

\* getDocs resolved: lines 252-272, ending in window.location.reload()
RestoreResolve(k) ==
    /\ calls[k].fn = "restore"
    /\ ev' = [Ev("restore") EXCEPT !.done = TRUE, !.outcome = "resolved",
                  !.commit = "ok", !.toast = "Restore complete"]
    /\ UNCHANGED <<remote, nClicks>>
    /\ Reload(getQueuedOperations, Restored(remote[calls[k].uid]))

\* variant: the catch block without the throw of line 281
RestoreRejectSwallowed(k) ==
    /\ calls[k].fn = "restore"
    /\ status' = "offline"
    /\ calls' = RemoveAt(calls, k)
    /\ ev' = [Ev("restore") EXCEPT !.done = TRUE, !.outcome = "resolved",
                  !.commit = "fail", !.toast = "Restore failed"]
    /\ UNCHANGED <<appConfig, nClicks, db, user, listener, queue, nextId, nSaves, remote,
                   isConnected, lastSynced, pendingOperations, isProcessingQueue,
                   saves, drains, local, orphans, replays>>
    /\ effectDue' = (effectDue \/ DepsChanged)
    /\ edge' = (edge \/ Rose)
    /\ UNCHANGED mounted

\* getDocs rejected: the catch block, lines 273-282
RestoreReject(k) ==
    /\ calls[k].fn = "restore"
    /\ status' = "offline"
    /\ calls' = RemoveAt(calls, k)
    /\ ev' = [Ev("restore") EXCEPT !.done = TRUE, !.outcome = "rejected",
                  !.commit = "fail", !.toast = "Restore failed"]
    /\ UNCHANGED <<appConfig, nClicks, db, user, listener, queue, nextId, nSaves, remote,
                   isConnected, lastSynced, pendingOperations, isProcessingQueue,
                   saves, drains, local, orphans, replays>>
    /\ effectDue' = (effectDue \/ DepsChanged)
    /\ edge' = (edge \/ Rose)
    /\ UNCHANGED mounted

RestoreSettle ==
    \E k \in 1..Len(calls) : RestoreResolve(k) \/ RestoreReject(k)

(***************************************************************************)
(* pages/Settings.tsx: handleReset, with resetAllData of SyncContext.tsx   *)
(***************************************************************************)
\* lines 209-228 of handleReset: every local key is removed, the queue with them,
\* and the page reloads
ClearLocalAndReload == Reload(clearQueue, NoWrites)

\* the Reset button: handleReset up to its end or to `await getDocs` of resetAllData
handleReset ==
    /\ Len(calls) < MaxCalls
    /\ nClicks < MaxClicks
    /\ nClicks' = nClicks + 1
    /\ IF ~isConnected
       THEN /\ ev' = [Ev("handleReset") EXCEPT !.done = TRUE, !.outcome = "resolved",
                          !.toast = "Data reset complete"]
            /\ remote' = remote
            /\ ClearLocalAndReload
       ELSE /\ IF ~db \/ user = NoUser
               THEN /\ ev' = [Ev("resetAllData") EXCEPT !.done = TRUE,
                                  !.outcome = "rejected", !.toast = "Reset failed"]
                    /\ UNCHANGED <<status, calls>>
               ELSE /\ status' = "syncing"
                    /\ calls' = Append(calls, Call("resetAllData", "getDocs", "handleReset",
                                                   NoWrites, {}))
                    /\ ev' = Ev("resetAllData")
            /\ UNCHANGED <<appConfig, db, user, listener, queue, nextId, nSaves, remote,
                           isConnected, lastSynced, pendingOperations, isProcessingQueue,
                           saves, drains, local, orphans, replays>>
            /\ effectDue' = (effectDue \/ DepsChanged)
            /\ edge' = (edge \/ Rose)
            /\ UNCHANGED mounted

\* getDocs of resetAllData resolved: one deleteDoc per document found, lines 327-331
ResetGetDocsResolve(k) ==
    /\ calls[k].fn = "resetAllData" /\ calls[k].stage = "getDocs"
    /\ calls' = [calls EXCEPT ![k].stage = "deleteDoc",
                              ![k].docs = {c \in Collections : remote[calls[k].uid][c].present}]
    /\ ev' = Ev("resetAllData")
    /\ UNCHANGED <<appConfig, nClicks, db, user, listener, queue, nextId, nSaves, remote, status,
                   isConnected, lastSynced, pendingOperations, isProcessingQueue,
                   saves, drains, local, orphans, replays>>
    /\ effectDue' = (effectDue \/ DepsChanged)
    /\ edge' = (edge \/ Rose)
    /\ UNCHANGED mounted

\* variant: the catch block of resetAllData without setStatus("offline")
ResetRejectNoStatus(k) ==
    \E D \in SUBSET calls[k].docs :
        /\ calls[k].fn = "resetAllData"
        /\ calls[k].stage = "deleteDoc" => D # calls[k].docs
        /\ remote' = Applied(calls[k].uid, NoWrites, D)
        /\ calls' = RemoveAt(calls, k)
        /\ ev' = [Ev("resetAllData") EXCEPT !.done = TRUE, !.outcome = "rejected",
                      !.commit = "fail", !.toast = "Reset failed",
                      !.attempts = Cardinality(D)]
        /\ UNCHANGED <<appConfig, nClicks, db, user, listener, queue, nextId, nSaves, status,
                       isConnected, lastSynced, pendingOperations, isProcessingQueue,
                       saves, drains, local, orphans, replays>>
        /\ effectDue' = (effectDue \/ DepsChanged)
        /\ edge' = (edge \/ Rose)
        /\ UNCHANGED mounted

\* variant: handleReset removes the local keys in a finally block
ResetRejectClears(k) ==
    \E D \in SUBSET calls[k].docs :
        /\ calls[k].fn = "resetAllData"
        /\ calls[k].stage = "deleteDoc" => D # calls[k].docs
        /\ remote' = Applied(calls[k].uid, NoWrites, D)
        /\ status' = "offline"
        /\ calls' = RemoveAt(calls, k)
        /\ queue' = clearQueue
        /\ local' = NoWrites
        /\ ev' = [Ev("resetAllData") EXCEPT !.done = TRUE, !.outcome = "rejected",
                      !.commit = "fail", !.toast = "Reset failed",
                      !.attempts = Cardinality(D)]
        /\ UNCHANGED <<appConfig, nClicks, db, user, listener, nextId, nSaves,
                       isConnected, lastSynced, pendingOperations, isProcessingQueue,
                       saves, drains, orphans>>
        /\ replays' = Replayed({})
        /\ effectDue' = (effectDue \/ DepsChanged)
        /\ edge' = (edge \/ Rose)
        /\ UNCHANGED mounted

\* getDocs rejected, or one of the deleteDoc promises did after those of D went
\* through: the catch blocks of resetAllData (335-339) and of handleReset (229-235)
ResetReject(k) ==
    \E D \in SUBSET calls[k].docs :
        /\ calls[k].fn = "resetAllData"
        /\ calls[k].stage = "deleteDoc" => D # calls[k].docs
        /\ remote' = Applied(calls[k].uid, NoWrites, D)
        /\ status' = "offline"
        /\ calls' = RemoveAt(calls, k)
        /\ ev' = [Ev("resetAllData") EXCEPT !.done = TRUE, !.outcome = "rejected",
                      !.commit = "fail", !.toast = "Reset failed",
                      !.attempts = Cardinality(D)]
        /\ UNCHANGED <<appConfig, nClicks, db, user, listener, queue, nextId, nSaves,
                       isConnected, lastSynced, pendingOperations, isProcessingQueue,
                       saves, drains, local, orphans, replays>>
        /\ effectDue' = (effectDue \/ DepsChanged)
        /\ edge' = (edge \/ Rose)
        /\ UNCHANGED mounted

\* every deleteDoc resolved: lines 333-334, then handleReset goes on with 209-228
ResetDeleteResolve(k) ==
    /\ calls[k].fn = "resetAllData" /\ calls[k].stage = "deleteDoc"
    /\ remote' = Applied(calls[k].uid, NoWrites, calls[k].docs)
    /\ ev' = [Ev("resetAllData") EXCEPT !.done = TRUE, !.outcome = "resolved",
                  !.commit = "ok", !.toast = "Data reset complete"]
    /\ UNCHANGED nClicks
    /\ ReloadLeaving(clearQueue, NoWrites, Writes(InFlightOf(RemoveAt(calls, k))))

ResetSettle ==
    \E k \in 1..Len(calls) :
        ResetGetDocsResolve(k) \/ ResetReject(k) \/ ResetDeleteResolve(k)

(***************************************************************************)
(* contexts/SyncContext.tsx: fetchData                                     *)
(***************************************************************************)
\* a fetchData call suspended at `await getDocs`
FetchCall(name) ==
    [fn |-> "fetchData", stage |-> "getDocs", by |-> "page", uid |-> user,
     batch |-> NoWrites, docs |-> {}, name |-> name]

\* the payload of the save of the same collection that resolved in the last step
JustSaved(name) ==
    IF ev.fn = "saveData" /\ ev.done /\ ev.commit = "ok" /\ ev.name = name
    THEN Partition(ev.result.items)
    ELSE NoPartition

\* fetchData(name), up to its return (no db or user) or to `await getDocs`
fetchData(name) ==
    IF ~db \/ user = NoUser
    THEN /\ ev' = [Ev("fetchData") EXCEPT !.done = TRUE, !.outcome = "resolved",
                       !.name = name, !.result = Null]
         /\ UNCHANGED calls
    ELSE /\ calls' = Append(calls, FetchCall(name))
         /\ ev' = [Ev("fetchData") EXCEPT !.name = name, !.after = JustSaved(name)]

\* a page asks for a collection
FetchDataCall ==
    \E name \in Collections :
        /\ mounted
        /\ Len(calls) < MaxCalls
        /\ fetchData(name)
        /\ UNCHANGED <<appConfig, nClicks, db, user, listener, queue, nextId, nSaves, remote,
                       status, isConnected, lastSynced, pendingOperations,
                       isProcessingQueue, saves, drains, local, orphans, replays>>
        /\ effectDue' = (effectDue \/ DepsChanged)
        /\ edge' = (edge \/ Rose)
        /\ UNCHANGED mounted

\* variant: line 299 with an empty array taken for a missing one
ItemsOrNullEmptyIsNull(items) ==
    IF items = <<>> THEN Null ELSE Result(items)

\* line 299, `data.items || null`: items is an array, and every array is truthy
ItemsOrNull(items) == Result(items)

\* lines 295-302: the document whose id is name, among those getDocs returned
Fetched(docs, name) ==
    IF docs[name].present THEN ItemsOrNull(docs[name].items) ELSE Null

\* what every settle step of fetchData leaves alone
FetchFrame ==
    /\ UNCHANGED <<appConfig, nClicks, db, user, listener, queue, nextId, nSaves, remote,
                   status, isConnected, lastSynced, pendingOperations,
                   isProcessingQueue, saves, drains, local, orphans, replays>>
    /\ effectDue' = (effectDue \/ DepsChanged)
    /\ edge' = (edge \/ Rose)
    /\ UNCHANGED mounted

\* getDocs resolved: lines 295-302
FetchResolve(k) ==
    /\ calls[k].fn = "fetchData"
    /\ calls' = RemoveAt(calls, k)
    /\ ev' = [Ev("fetchData") EXCEPT !.done = TRUE, !.outcome = "resolved",
                  !.commit = "ok", !.name = calls[k].name,
                  !.result = Fetched(remote[calls[k].uid], calls[k].name),
                  !.after = IF ev.fn = "fetchData" /\ ~ev.done /\ k = Len(calls)
                            THEN ev.after ELSE NoPartition]
    /\ FetchFrame

\* variant: the catch block throws the error on
FetchRejectRethrow(k) ==
    /\ calls[k].fn = "fetchData"
    /\ calls' = RemoveAt(calls, k)
    /\ ev' = [Ev("fetchData") EXCEPT !.done = TRUE, !.outcome = "rejected",
                  !.commit = "fail", !.name = calls[k].name,
                  !.toast = "Fetch failed"]
    /\ FetchFrame

\* getDocs rejected: the catch block, lines 303-310
FetchReject(k) ==
    /\ calls[k].fn = "fetchData"
    /\ calls' = RemoveAt(calls, k)
    /\ ev' = [Ev("fetchData") EXCEPT !.done = TRUE, !.outcome = "resolved",
                  !.commit = "fail", !.name = calls[k].name, !.result = Null,
                  !.toast = "Fetch failed"]
    /\ FetchFrame

FetchSettle ==
    \E k \in 1..Len(calls) : FetchResolve(k) \/ FetchReject(k)

(***************************************************************************)
(* The application: SyncProvider mounted over an empty offline queue.      *)
(***************************************************************************)
InitUsers(P, cap, q, n, docs, store) ==
    /\ appConfig = [maxQueueSize |-> cap, maxRetries |-> MaxRetries]
    /\ db \in BOOLEAN
    /\ user = NoUser
    /\ mounted = TRUE
    /\ listener = NoListener
    /\ queue = q
    /\ nextId = n
    /\ nSaves = 0
    /\ remote = [u \in P |-> docs]
    /\ status = "offline"
    /\ isConnected = FALSE
    /\ lastSynced = "null"
    /\ pendingOperations = Len(q)
    /\ isProcessingQueue = FALSE
    /\ saves = <<>>
    /\ drains = <<>>
    /\ effectDue = FALSE
    /\ edge = FALSE
    /\ local = store
    /\ calls = <<>>
    /\ orphans = <<>>
    /\ nClicks = 0
    /\ replays = [id \in Ids(q) |-> 0]
    /\ ev = Ev("mount")

InitStores(cap, q, n, docs, store) == InitUsers(Users, cap, q, n, docs, store)

InitFrom(cap, q, n) == InitStores(cap, q, n, NoWrites, NoWrites)

InitWith(cap) == InitFrom(cap, <<>>, 1)

Init == InitWith(QueueCap)

Next ==
    \/ SaveDataCall
    \/ SaveDataSettle
    \/ ProcessQueueCall
    \/ DrainTriggerEffect
    \/ DrainReplaySettle
    \/ AuthChange
    \/ SnapshotNext
    \/ SnapshotError

Spec == Init /\ [][Next]_vars



(***************************************************************************)
(* SpecQ: the operation queue under every caller.  Besides saveData and    *)
(* processQueue, any code may call the exported removeFromQueue,           *)
(* incrementRetryCount and clearQueue of lib/offlineQueue.ts directly.     *)
(***************************************************************************)
RemoveFromQueueCall ==
    \E id \in 1..nextId :
        /\ queue' = removeFromQueue(getQueuedOperations, id)
        /\ ev' = [Ev("removeFromQueue") EXCEPT !.done = TRUE, !.arg = id,
                    !.outcome = IF id \in Ids(getQueuedOperations) THEN "found" ELSE "absent"]
        /\ UNCHANGED <<appConfig, nClicks, local, calls, orphans, db, user, listener, nextId, nSaves, remote, status,
                       isConnected, lastSynced, pendingOperations, isProcessingQueue,
                       saves, drains, effectDue, edge, mounted>>
        /\ replays' = Replayed({})

IncrementRetryCountCall ==
    \E id \in 1..nextId :
        /\ \A k \in 1..Len(queue) :
              queue[k].id = id => queue[k].retryCount < MaxRetryCount
        /\ queue' = incrementRetryCount(getQueuedOperations, id)
        /\ ev' = [Ev("incrementRetryCount") EXCEPT !.done = TRUE, !.arg = id,
                    !.outcome = IF id \in Ids(getQueuedOperations) THEN "found" ELSE "absent"]
        /\ UNCHANGED <<appConfig, nClicks, local, calls, orphans, db, user, listener, nextId, nSaves, remote, status,
                       isConnected, lastSynced, pendingOperations, isProcessingQueue,
                       saves, drains, effectDue, edge, mounted>>
        /\ replays' = Replayed({})

ClearQueueCall ==
    /\ queue' = clearQueue
    /\ ev' = [Ev("clearQueue") EXCEPT !.done = TRUE]
    /\ UNCHANGED <<appConfig, nClicks, local, calls, orphans, db, user, listener, nextId, nSaves, remote, status,
                   isConnected, lastSynced, pendingOperations, isProcessingQueue,
                   saves, drains, effectDue, edge, mounted>>
    /\ replays' = Replayed({})

InitQ == InitWith(QueueCapQ)

SaveDataCallQ == SaveDataCallUpTo(QueueCapQ + 1)

NextQ ==
    \/ SaveDataCallQ
    \/ SaveDataSettle
    \/ ProcessQueueCall
    \/ DrainReplaySettle
    \/ AuthChange
    \/ RemoveFromQueueCall
    \/ IncrementRetryCountCall
    \/ ClearQueueCall

SpecQ == InitQ /\ [][NextQ]_vars

(***************************************************************************)
(* SpecFill: appConfig as lib/config.ts sets it (maxQueueSize 50), and a   *)
(* page that saves one collection over and over while nobody is signed in. *)
(***************************************************************************)
InitFill == InitWith(MaxQueueSize)

FillSave ==
    \E c \in STORAGE_KEYS :
        /\ nSaves < MaxFill
        /\ queue # <<>> => c = queue[1].collection
        /\ nSaves' = nSaves + 1
        /\ local' = [local EXCEPT ![c] = Partition(Snapshot(nSaves + 1))]
        /\ saveData(c, Snapshot(nSaves + 1))

NextFill == FillSave

SpecFill == InitFill /\ [][NextFill]_vars

(***************************************************************************)
(* SpecApp: the application with its Settings page: the write path and the *)
(* drains of Spec, and the Sync, Restore and Reset buttons.                *)
(***************************************************************************)
NextApp ==
    \/ SaveDataCallQ
    \/ SaveDataSettle
    \/ ProcessQueueCall
    \/ DrainTriggerEffect
    \/ DrainReplaySettle
    \/ AuthChange
    \/ SnapshotNext
    \/ SnapshotError
    \/ handleSync
    \/ saveBankAccountsWithSync
    \/ SyncSettle
    \/ handleRestore
    \/ RestoreSettle
    \/ handleReset
    \/ ResetSettle
    \/ OrphanSettle

SpecApp == InitQ /\ [][NextApp]_vars

(***************************************************************************)
(* SpecPure: removeFromQueue and incrementRetryCount as functions of the   *)
(* stored queue, applied to every queue of at most MaxLen operations with  *)
(* distinct ids, in any order and with any retryCount up to maxRetries.    *)
(***************************************************************************)
StoredOperation(id, n) ==
    [id |-> id, type |-> "save", collection |-> "products", data |-> Snapshot(id),
     retryCount |-> n]

Queues ==
    UNION {{q \in [1..n -> {StoredOperation(id, r) : id \in 1..MaxLen, r \in 0..MaxRetries}] :
                \A i, j \in 1..n : i # j => q[i].id # q[j].id} : n \in 0..MaxLen}

InitPure == \E q \in Queues : InitFrom(MaxQueueSize, q, MaxLen + 1)

NextPure ==
    \/ RemoveFromQueueCall
    \/ IncrementRetryCountCall

SpecPure == InitPure /\ [][NextPure]_vars

(***************************************************************************)
(* SpecRestore: restore over every remote store and every localStorage it  *)
(* can meet.  The remote documents, one of them without a localStorage     *)
(* key, may have been written by another device; each is absent, empty or  *)
(* holds a snapshot.                                                       *)
(***************************************************************************)
RemoteStores ==
    [Collections -> {NoPartition, Partition(<<>>), Partition(Snapshot(RemoteItem))}]

LocalStores ==
    {store \in [Collections -> {NoPartition, Partition(Snapshot(0))}] :
        \A c \in Collections \ STORAGE_KEYS : ~store[c].present}

InitRestore ==
    \E docs \in RemoteStores, store \in LocalStores :
        InitStores(MaxQueueSize, <<>>, 1, docs, store)

NextRestore ==
    \/ AuthChange
    \/ handleRestore
    \/ RestoreSettle

SpecRestore == InitRestore /\ [][NextRestore]_vars

(***************************************************************************)
(* SpecReset: the Reset button over remote stores of up to three           *)
(* documents, while the Products page goes on saving.                      *)
(***************************************************************************)
ResetStores ==
    {docs \in [Collections -> {NoPartition, Partition(Snapshot(RemoteItem))}] :
        \A c \in {"settings", "bankAccounts"} : ~docs[c].present}

InitReset ==
    \E docs \in ResetStores : InitStores(QueueCapQ, <<>>, 1, docs, NoWrites)

NextReset ==
    \/ AuthChange
    \/ SnapshotNext
    \/ SaveDataCallQ
    \/ SaveDataSettle
    \/ handleReset
    \/ ResetSettle

SpecReset == InitReset /\ [][NextReset]_vars

\* The reset on its own: the user signs in and out and presses Reset, and saves
\* nothing.  What happens by itself does happen: a live subscription delivers its
\* snapshot, the drain-trigger effect runs, every pending promise settles.
NextResetOnly ==
    \/ AuthChange
    \/ SnapshotNext
    \/ SnapshotError
    \/ DrainTriggerEffect
    \/ handleReset
    \/ ResetSettle

FairReset ==
    /\ WF_vars(SnapshotNext)
    /\ WF_vars(DrainTriggerEffect)
    /\ WF_vars(ResetSettle)

SpecResetLive == InitReset /\ [][NextResetOnly]_vars /\ FairReset

(***************************************************************************)
(* SpecFetch: pages save and fetch collections while users sign in and     *)
(* out, over remote stores of up to three documents.                       *)
(***************************************************************************)
NextFetch ==
    \/ AuthChange
    \/ SaveDataAnyCall
    \/ SaveDataSettle
    \/ FetchDataCall
    \/ FetchSettle

SpecFetch == InitReset /\ [][NextFetch]_vars

(***************************************************************************)
(* SpecRetry: three operations were queued while nobody was signed in;     *)
(* then users sign in and out and the queue is drained, again and again,   *)
(* every replay succeeding or failing.                                     *)
(***************************************************************************)
InitRetry ==
    InitFrom(MaxQueueSize, [id \in 1..MaxLen |-> StoredOperation(id, 0)], MaxLen + 1)

NextRetry ==
    \/ AuthChange
    \/ SnapshotNext
    \/ ProcessQueueCall
    \/ DrainTriggerEffect
    \/ DrainReplaySettle

SpecRetry == InitRetry /\ [][NextRetry]_vars

\* SpecRetry with every batch.commit() of a replay settling, one way or the other
FairRetry == WF_vars(DrainReplaySettle)

SpecRetryLive == InitRetry /\ [][NextRetry]_vars /\ FairRetry

(***************************************************************************)
(* SpecEvict: Spec started with a full queue left by an earlier session,   *)
(* so that every enqueue made while the queue is drained evicts.           *)
(***************************************************************************)
InitEvict ==
    InitFrom(QueueCap, [id \in 1..QueueCap |-> StoredOperation(id, 0)], QueueCap + 1)

SpecEvict == InitEvict /\ [][Next]_vars

(***************************************************************************)
(* SpecRace: the write path of Spec with saveData calls overlapping: a     *)
(* page saves again while the commit of its last save is still pending,    *)
(* and the commits settle in any order.                                    *)
(***************************************************************************)
SaveDataCallRace == SaveDataCallWithin(MaxSaves, MaxRace)

NextRace ==
    \/ SaveDataCallRace
    \/ SaveDataSettle
    \/ ProcessQueueCall
    \/ DrainTriggerEffect
    \/ DrainReplaySettle
    \/ AuthChange
    \/ SnapshotNext

SpecRace == Init /\ [][NextRace]_vars

(***************************************************************************)
(* SpecPages: the pages that keep a collection.  Products and Customers    *)
(* save from an effect that runs whenever the collection changes, the      *)
(* bank accounts of the Settings page are saved by the handler that        *)
(* changed them.                                                           *)
(***************************************************************************)
NextPages ==
    \/ SaveEffect
    \/ SaveDataSettle
    \/ saveBankAccountsWithSync
    \/ SyncSettle
    \/ DrainTriggerEffect
    \/ DrainReplaySettle
    \/ AuthChange
    \/ SnapshotNext

SpecPages == InitQ /\ [][NextPages]_vars

(***************************************************************************)
(* The connection effect on its own: two principals sign in and out in any *)
(* order, the subscription delivers snapshots and errors, the provider is  *)
(* unmounted and mounted again, and a page reads a collection in between.  *)
(***************************************************************************)
Principals == Users \cup {"u2"}

InitConn == InitUsers(Principals, QueueCapQ, <<>>, 1, NoWrites, NoWrites)

NextConn ==
    \/ AuthChangeAmong(Principals)
    \/ SnapshotNext
    \/ SnapshotError
    \/ Unmount
    \/ Mount
    \/ DrainTriggerEffect
    \/ FetchDataCall
    \/ FetchSettle

SpecConn == InitConn /\ [][NextConn]_vars


(***************************************************************************)
(* Properties                                                              *)
(***************************************************************************)
Last(q) == q[Len(q)]

\* the step is a call of saveData / the step enqueues an operation
SaveCallStep == nSaves' = nSaves + 1
EnqueueStep == nextId' = nextId + 1

\* the position just after the part of the snapshot that the activation which
\* took this step has gone through: the index of its next replay, or the end
ReachedIndex(operations) ==
    IF Len(drains') = 0 \/ (ev'.fn = "processQueue" /\ Len(drains') = Len(drains))
    THEN Len(operations) + 1
    ELSE Last(drains').i

\* C1: from an empty queue, whatever is called (saveData, processQueue, the
\* exported removeFromQueue, incrementRetryCount, clearQueue), the operation
\* queue never holds more than maxQueueSize entries.
C1_QueueBounded == Len(queue) <= appConfig.maxQueueSize

C1_Witness ==
    /\ Len(queue) = appConfig.maxQueueSize
    /\ nextId > appConfig.maxQueueSize + 1
    /\ ev.fn = "saveData"
    /\ Last(queue).id = nextId - 1

\* C2: an enqueue at a full queue removes exactly the head and appends the new
\* operation at the tail, the others keeping their order; with maxQueueSize 50,
\* 51 enqueues and no drain leave 50 entries, the first one enqueued gone.
C2_FifoEviction ==
    /\ [][(EnqueueStep /\ Len(queue) >= appConfig.maxQueueSize) =>
            /\ Len(queue') = appConfig.maxQueueSize
            /\ SubSeq(queue', 1, Len(queue') - 1) = Tail(queue)
            /\ Last(queue').id = nextId
            /\ Last(queue').retryCount = 0
            /\ queue[1].id \notin Ids(queue')]_vars
    /\ []((appConfig.maxQueueSize = MaxQueueSize /\ nextId = MaxQueueSize + 2) =>
            /\ Len(queue) = MaxQueueSize
            /\ Ids(queue) = 2..(MaxQueueSize + 1)
            /\ \A k \in 1..Len(queue) : queue[k].id = k + 1)

C2_Witness ==
    /\ appConfig.maxQueueSize = MaxQueueSize
    /\ nextId = MaxQueueSize + 2
    /\ Len(queue) = MaxQueueSize
    /\ queue[1].id = 2

\* C3: saveData never rejects; a call that ends without a successful remote
\* write (no db or user, or the commit failed) has enqueued its operation.
C3_SaveDataNeverRejects ==
    [][ev'.fn = "saveData" =>
            /\ ev'.outcome # "rejected"
            /\ (ev'.done /\ ev'.commit # "ok") =>
                  /\ EnqueueStep
                  /\ Len(queue') >= 1
                  /\ Last(queue').id = nextId]_vars

C3_Witness ==
    /\ ev.fn = "saveData"
    /\ ev.commit = "fail"
    /\ ev.outcome = "resolved"
    /\ Len(queue) >= 1

\* C4: a saveData call made while isConnected is false, or with no principal,
\* enqueues the operation at once and attempts no remote write.
C4_NotConnectedSaveQueues ==
    [][(SaveCallStep /\ (~isConnected \/ user = NoUser)) =>
            /\ EnqueueStep
            /\ saves' = saves]_vars

\* C5: a saveData call made with db and user present: when its commit succeeds
\* nothing is enqueued, lastSynced is set and status is synced; when it fails
\* exactly one operation with its collection and payload and retryCount 0 is
\* enqueued and status is offline.
C5_SaveOutcome ==
    [][(ev'.fn = "saveData" /\ ev'.commit # "none") =>
            \E k \in 1..Len(saves) :
                /\ saves' = RemoveAt(saves, k)
                /\ IF ev'.commit = "ok"
                   THEN /\ queue' = queue
                        /\ nextId' = nextId
                        /\ pendingOperations' = pendingOperations
                        /\ lastSynced' = "date"
                        /\ status' = "synced"
                   ELSE /\ Len(queue') >= 1
                        /\ Last(queue') = [id |-> nextId, type |-> "save",
                                           collection |-> saves[k].collection,
                                           data |-> saves[k].data, retryCount |-> 0]
                        /\ Ids(queue') \ Ids(queue) = {nextId}
                        /\ Len(queue') <= Len(queue) + 1
                        /\ nextId' = nextId + 1
                        /\ status' = "offline"]_vars

C5_Witness ==
    /\ ev.fn = "saveData"
    /\ ev.commit = "ok"
    /\ lastSynced = "date"
    /\ status = "synced"

\* C6 as stated: every saveData call makes exactly one remote write attempt.
C6_ExactlyOneAttempt == (ev.fn = "saveData" /\ ev.done) => ev.attempts = 1

\* C6 amended: a saveData call makes at most one remote write attempt (exactly
\* one when db and user are present at the call, none otherwise), never commits
\* again inline, and adds at most one entry to the queue.
C6_AtMostOneAttempt ==
    /\ [](\A k \in 1..Len(saves) : saves[k].attempts = 1)
    /\ [][ev'.fn = "saveData" =>
            /\ Len(queue') <= Len(queue) + 1
            /\ nextId' \in {nextId, nextId + 1}
            /\ IF SaveCallStep
               THEN IF ~db \/ user = NoUser
                    THEN ev'.done /\ ev'.attempts = 0 /\ saves' = saves /\ EnqueueStep
                    ELSE /\ ~ev'.done
                         /\ Len(saves') = Len(saves) + 1
                         /\ Last(saves').attempts = 1
                         /\ queue' = queue /\ nextId' = nextId
               ELSE /\ ev'.done
                    /\ ev'.attempts = 1
                    /\ Len(saves') = Len(saves) - 1]_vars

C6_Witness ==
    /\ ev.fn = "saveData"
    /\ ev.done
    /\ ev.attempts = 1
    /\ ev.commit = "fail"
    /\ pendingOperations >= 1

\* C7: at most one drain is in progress; a call of processQueue (by a consumer
\* or by the drain-trigger effect) while a drain is in progress returns at once:
\* it starts no replay and changes no queue entry.
C7_SingleDrain ==
    /\ [](Len(drains) <= 1)
    /\ [][(ev'.fn = "processQueue" /\ drains # <<>>) =>
            /\ ev'.done
            /\ drains' = drains
            /\ queue' = queue
            /\ remote' = remote
            /\ pendingOperations' = pendingOperations]_vars

C7_Witness ==
    /\ ev.fn = "processQueue"
    /\ ev.done
    /\ Len(drains) = 1
    /\ isProcessingQueue

\* C8: within a drain the replays are issued in the order of the snapshot, every
\* eligible operation once, and a failed replay does not end the drain: the next
\* replay is that of the next eligible operation, and the drain ends only when
\* no eligible operation is left.
C8_FifoReplay ==
    /\ [](\A k \in 1..Len(drains) :
            /\ drains[k].i \in 1..Len(drains[k].operations)
            /\ shouldRetry(drains[k].operations[drains[k].i]))
    /\ [][ev'.fn = "replay" =>
            LET d == drains[1]
                n == ReachedIndex(d.operations)
            IN  /\ n > d.i
                /\ \A j \in (d.i + 1)..(n - 1) : ~shouldRetry(d.operations[j])
                /\ drains' # <<>> => Last(drains').operations = d.operations]_vars
    /\ [][(ev'.fn = "processQueue" /\ ~processQueueGuard /\ queue # <<>>) =>
            LET n == ReachedIndex(queue)
            IN  /\ \A j \in 1..(n - 1) : ~shouldRetry(queue[j])
                /\ Len(drains') > Len(drains) => Last(drains').operations = queue]_vars

C8_Witness ==
    /\ Len(drains) = 1
    /\ drains[1].i >= 2
    /\ shouldRetry(drains[1].operations[1])
    /\ ev.fn = "replay"
    /\ ev.commit = "fail"

\* C9: shouldRetry(op) holds exactly when op.retryCount < maxRetries (3); an
\* operation whose retryCount is maxRetries when a drain starts is never
\* replayed by that drain and is out of the queue once the drain has passed it.
C9_RetryBudget ==
    /\ [](\A k \in 1..Len(queue) :
            shouldRetry(queue[k]) <=> queue[k].retryCount < MaxRetries)
    /\ [](\A k \in 1..Len(drains) :
            LET d == drains[k] IN
            /\ d.operations[d.i].retryCount < MaxRetries
            /\ \A j \in 1..(d.i - 1) :
                  d.operations[j].retryCount >= MaxRetries
                      => d.operations[j].id \notin Ids(queue))
    /\ [][ev'.fn = "replay" =>
            LET d == drains[1]
                n == ReachedIndex(d.operations)
            IN  \A j \in 1..(n - 1) :
                    d.operations[j].retryCount >= MaxRetries
                        => d.operations[j].id \notin Ids(queue')]_vars
    /\ [][(ev'.fn = "processQueue" /\ ~processQueueGuard) =>
            \A j \in 1..(ReachedIndex(queue) - 1) :
                queue[j].retryCount >= MaxRetries => queue[j].id \notin Ids(queue')]_vars

C9_Witness ==
    /\ Len(drains) = 1
    /\ \E j \in 1..(drains[1].i - 1) :
          /\ drains[1].operations[j].retryCount = MaxRetries
          /\ drains[1].operations[j].id \notin Ids(queue)

Pos(operations, id) == CHOOSE k \in 1..Len(operations) : operations[k].id = id

\* a successful replay is counted: successCount goes up, and the drain that
\* ends with it announces "Sync complete"
Counted(d) ==
    IF drains' = <<>>
    THEN ev'.toast = "Sync complete"
    ELSE Last(drains').successCount = d.successCount + 1

\* every entry of queue' but the one at position p is an unchanged entry of queue
OthersUnchanged(p) ==
    \A k \in 1..Len(queue') :
        k # p => \E j \in 1..Len(queue) : queue[j] = queue'[k]

\* C10 as stated: a replay that succeeds removes the operation and counts it; a
\* replay that fails adds exactly 1 to its retryCount and leaves it in the queue
\* at its position, not to be attempted again in this drain.
C10_ReplayOutcome ==
    [][ev'.fn = "replay" =>
            LET d  == drains[1]
                op == d.operations[d.i]
            IN  IF ev'.commit = "ok"
                THEN op.id \notin Ids(queue') /\ Counted(d)
                ELSE /\ op.id \in Ids(queue)
                     /\ LET p == Pos(queue, op.id) IN
                        /\ Len(queue') >= p
                        /\ queue'[p] = [queue[p] EXCEPT !.retryCount = @ + 1]
                     /\ (drains' = <<>> \/ Last(drains').i > d.i)]_vars

\* C10 amended: as stated for a success; a replay that fails adds exactly 1 to
\* the retryCount of the operation and leaves it at its position when the
\* operation is still in the queue, and changes no queue entry when an enqueue
\* at a full queue evicted it while the replay was in flight; either way it is
\* not attempted again in this drain and no other entry is changed.
C10_ReplayOutcomeWhileQueued ==
    [][ev'.fn = "replay" =>
            LET d  == drains[1]
                op == d.operations[d.i]
            IN  IF ev'.commit = "ok"
                THEN op.id \notin Ids(queue') /\ Counted(d) /\ OthersUnchanged(0)
                ELSE /\ IF op.id \in Ids(queue)
                        THEN LET p == Pos(queue, op.id) IN
                             /\ Len(queue') >= p
                             /\ queue'[p] = [queue[p] EXCEPT !.retryCount = @ + 1]
                             /\ SubSeq(queue', 1, p - 1) = SubSeq(queue, 1, p - 1)
                             /\ OthersUnchanged(p)
                        ELSE OthersUnchanged(0)
                     /\ (drains' = <<>> \/ Last(drains').i > d.i)]_vars

C10_Witness ==
    /\ ev.fn = "replay"
    /\ ev.commit = "fail"
    /\ \E k \in 1..Len(queue) : queue[k].retryCount = 1

\* nothing of the sync engine is scheduled: no commit is in flight, no drain is
\* suspended and the drain-trigger effect has no changed dependency to run for
Idle == saves = <<>> /\ drains = <<>> /\ ~effectDue

\* C11: with the remote reported reachable and a principal present, a non-empty
\* queue is drained without a further connectivity change or save: the engine
\* does not come to rest while operations are still queued.
C11_DrainedWhenIdle ==
    (db /\ user # NoUser /\ isConnected /\ Idle) => queue = <<>>

\* the queue entry with this id
Entry(id) == queue[Pos(queue, id)]

\* the step ends the replay of the operation id with a success / removes the
\* operation id, whose retry budget is used up, in the loop of a drain
ReplaySucceeded(id) ==
    /\ ev'.fn = "replay" /\ ev'.commit = "ok"
    /\ id = drains[1].operations[drains[1].i].id

BudgetExhausted(id) ==
    /\ ev'.fn \in {"replay", "processQueue"}
    /\ Entry(id).retryCount >= appConfig.maxRetries

\* the step enqueues at a full queue, whose head id is / is the end of handleReset
Evicted(id) ==
    EnqueueStep /\ Len(queue) >= appConfig.maxQueueSize /\ id = queue[1].id

ResetCleared ==
    /\ ev'.fn \in {"handleReset", "resetAllData"}
    /\ ev'.done /\ ev'.outcome = "resolved"
    /\ queue' = <<>>

\* an operation enters the queue only as the new one of an enqueue, so that one
\* that left never comes back
FreshIdsOnly ==
    \A id \in Ids(queue') \ Ids(queue) : EnqueueStep /\ id = nextId

\* C12 as stated: an operation leaves the queue once, and only because its replay
\* succeeded or because its retryCount had reached maxRetries.
C12_RemovedOnce ==
    [][/\ FreshIdsOnly
       /\ \A id \in Ids(queue) \ Ids(queue') :
             ReplaySucceeded(id) \/ BudgetExhausted(id)]_vars

\* C12 amended: an operation leaves the queue once, and only because its replay
\* succeeded, because its retryCount had reached maxRetries, because an enqueue
\* at a full queue evicted it as the head, or because handleReset removed the
\* whole queue.
C12_RemovalReasons ==
    [][/\ FreshIdsOnly
       /\ \A id \in Ids(queue) \ Ids(queue') :
             \/ ReplaySucceeded(id)
             \/ BudgetExhausted(id)
             \/ Evicted(id)
             \/ ResetCleared]_vars

C12_Witness ==
    /\ ev.fn = "replay"
    /\ ev.commit = "ok"
    /\ queue = <<>>
    /\ nextId > 1
    /\ nClicks > 0

\* retryCount is 0 at enqueue, never goes down while the operation is queued and
\* never goes past maxRetries
RetryCountMonotone ==
    /\ [][EnqueueStep => Last(queue').retryCount = 0]_vars
    /\ [][\A id \in Ids(queue) \cap Ids(queue') :
            queue'[Pos(queue', id)].retryCount >= Entry(id).retryCount]_vars
    /\ [](\A k \in 1..Len(queue) : queue[k].retryCount \in 0..MaxRetries)

CutAt(q, p) == SubSeq(q, 1, p - 1) \o SubSeq(q, p + 1, Len(q))

C14_RemoveIdempotent ==
    [][ev'.fn = "removeFromQueue" =>
          LET id == ev'.arg IN
          /\ id \notin Ids(queue')
          /\ id \notin Ids(queue) => queue' = queue
          /\ removeFromQueue(queue', id) = queue'
          /\ \A p \in 1..Len(queue) : queue[p].id = id => queue' = CutAt(queue, p)]_vars

C14_Witness ==
    /\ ev.fn = "removeFromQueue"
    /\ ev.outcome = "found"
    /\ Len(queue) = MaxLen - 1

(***************************************************************************)
(* C15: incrementRetryCount(id) adds exactly 1 to the retryCount of the    *)
(* entry with that id and changes nothing else: the queue keeps its length *)
(* and order, every entry keeps its id, type, collection and data, every   *)
(* other entry keeps its retryCount, and a call with an id the queue does  *)
(* not hold leaves the queue as it was.                                    *)
(***************************************************************************)
C15_IncrementFrame ==
    [][ev'.fn = "incrementRetryCount" =>
          LET id == ev'.arg IN
          /\ Len(queue') = Len(queue)
          /\ \A k \in 1..Len(queue) :
                /\ queue'[k].id = queue[k].id
                /\ queue'[k].type = queue[k].type
                /\ queue'[k].collection = queue[k].collection
                /\ queue'[k].data = queue[k].data
                /\ queue'[k].retryCount =
                       queue[k].retryCount + (IF queue[k].id = id THEN 1 ELSE 0)
          /\ id \notin Ids(queue) => queue' = queue
          /\ UNCHANGED <<remote, local, status, pendingOperations>>]_vars

C15_Witness ==
    /\ ev.fn = "incrementRetryCount"
    /\ ev.outcome = "found"
    /\ Len(queue) = MaxLen
    /\ \E k \in 1..Len(queue) :
          /\ queue[k].id = ev.arg
          /\ queue[k].retryCount = 1
          /\ \A j \in 1..Len(queue) : j # k => queue[j].retryCount = 0

(***************************************************************************)
(* C16: a call of processQueue made with no signed-in user, with no        *)
(* Firestore instance, or with an empty queue does nothing: it starts no   *)
(* remote write, removes no operation, increments no retryCount, leaves    *)
(* the status and the pending count alone and shows no notification.       *)
(***************************************************************************)
C16_ProcessQueueNoOp ==
    [][(ev'.fn = "processQueue" /\ (user = NoUser \/ ~db \/ Len(queue) = 0)) =>
          /\ UNCHANGED <<queue, remote, drains, replays, pendingOperations,
                         isProcessingQueue, status, lastSynced>>
          /\ ev'.done
          /\ ev'.toast = "none"]_vars

C16_Witness ==
    /\ ev.fn = "processQueue"
    /\ ev.done
    /\ db
    /\ user = NoUser
    /\ Len(queue) > 0
    /\ drains = <<>>

(***************************************************************************)
(* C17: the drain-trigger effect starts a drain only on the edge where     *)
(* isConnected goes from false to true while the queue is non-empty: when  *)
(* the effect starts a drain, isConnected has risen since the effect last  *)
(* ran.                                                                    *)
(***************************************************************************)
EffectStartsDrain ==
    /\ ev'.fn = "processQueue"
    /\ ev'.by = "effect"
    /\ ~processQueueGuard
    /\ Len(queue) > 0

C17_DrainOnlyOnEdge == [][EffectStartsDrain => edge]_vars

(***************************************************************************)
(* C18: sync() writes the local snapshots as one atomic batch.  When its   *)
(* commit succeeds, every collection that had local data at the call holds *)
(* that snapshot remotely and no other document changes; in every other    *)
(* step of sync (its call, a failed commit) the remote store is unchanged. *)
(* No step of sync updates only some of the collections.                   *)
(***************************************************************************)
C18_SyncAllOrNothing ==
    [][ev'.fn = "sync" =>
          IF ev'.commit = "ok"
          THEN \E k \in 1..Len(calls) :
                  /\ calls' = RemoveAt(calls, k)
                  /\ \A u \in Users, c \in Collections :
                        remote'[u][c] =
                            IF u = calls[k].uid /\ calls[k].batch[c].present
                            THEN calls[k].batch[c]
                            ELSE remote[u][c]
          ELSE remote' = remote]_vars

C18_Witness ==
    /\ ev.fn = "sync"
    /\ ev.commit = "fail"
    /\ local["products"].present
    /\ local["bankAccounts"].present
    /\ \A u \in Users : ~remote[u]["bankAccounts"].present

(***************************************************************************)
(* C19: sync() never enqueues.  No step of sync (the call, a successful    *)
(* commit, a failed commit) changes the operation queue or the pending     *)
(* count; and when sync ends without a successful commit, because there is *)
(* no Firestore instance or no user or because the commit failed, the      *)
(* status is offline and the "Sync failed" notification is shown.          *)
(***************************************************************************)
C19_SyncNeverEnqueues ==
    [][ev'.fn = "sync" =>
          /\ UNCHANGED <<queue, pendingOperations, nextId>>
          /\ (ev'.done /\ ev'.commit # "ok") =>
                (status' = "offline" /\ ev'.toast = "Sync failed")
          /\ (ev'.commit = "none" /\ (~db \/ user = NoUser)) => ev'.done]_vars

C19_Witness ==
    /\ ev.fn = "sync"
    /\ ev.done
    /\ ev.commit = "none"
    /\ ev.toast = "Sync failed"
    /\ status = "offline"
    /\ Len(queue) > 0

(***************************************************************************)
(* C20: sync(), restore() and resetAllData() propagate a failure to the    *)
(* caller: whenever one of them ends because there is no Firestore         *)
(* instance or no user, or because its remote call failed, the promise it  *)
(* returned is rejected.                                                   *)
(***************************************************************************)
ExplicitActions == {"sync", "restore", "resetAllData"}

EndsInFailure ==
    /\ ev'.done
    /\ \/ ev'.commit = "fail"
       \/ ev'.commit = "none" /\ (~db \/ user = NoUser)

C20_ExplicitActionsReject ==
    [][(ev'.fn \in ExplicitActions /\ EndsInFailure) => ev'.outcome = "rejected"]_vars

(***************************************************************************)
(* C21: when restore() succeeds, every document of the user whose name has *)
(* a localStorage key is copied: the local collection equals its items.    *)
(* A document without a key causes no local write, and a local collection  *)
(* with no remote document is left as it was.                              *)
(***************************************************************************)
RestoreSucceeds ==
    /\ ev'.fn = "restore"
    /\ ev'.outcome = "resolved"

C21_RestoreCopiesMapped ==
    [][RestoreSucceeds =>
          \E k \in 1..Len(calls) :
              /\ calls[k].fn = "restore"
              /\ \A c \in Collections :
                    LET doc == remote[calls[k].uid][c] IN
                    IF c \in STORAGE_KEYS /\ doc.present
                    THEN local'[c].present /\ local'[c].items = doc.items
                    ELSE local'[c] = local[c]]_vars

C21_Witness ==
    /\ ev.fn = "restore"
    /\ ev.outcome = "resolved"
    /\ \E u \in Users :
          /\ remote[u]["invoices"].present
          /\ ~local["invoices"].present
          /\ remote[u]["products"] = Partition(Snapshot(RemoteItem))
          /\ local["products"] = Partition(Snapshot(RemoteItem))
          /\ ~remote[u]["customers"].present
          /\ local["customers"] = Partition(Snapshot(0))

(***************************************************************************)
(* C22: restore() fails loudly.  When it ends because there is no          *)
(* Firestore instance or no user, or because getDocs failed, it rejects,   *)
(* the status is offline and localStorage is as it was.  When it resolves, *)
(* every document that has a localStorage key has been copied: it never    *)
(* resolves with only some of them written.                                *)
(***************************************************************************)
C22_RestoreFailsLoudly ==
    [][(ev'.fn = "restore" /\ ev'.done) =>
          /\ EndsInFailure => ev'.outcome = "rejected"
          /\ ev'.outcome = "rejected" => (status' = "offline" /\ local' = local)
          /\ ev'.outcome = "resolved" =>
                \E k \in 1..Len(calls) :
                    \A c \in STORAGE_KEYS :
                        remote[calls[k].uid][c].present =>
                            local'[c] = remote[calls[k].uid][c]]_vars

C22_Witness ==
    /\ ev.fn = "restore"
    /\ ev.outcome = "rejected"
    /\ ev.commit = "fail"
    /\ status = "offline"
    /\ \E u \in Users :
          /\ remote[u]["products"] = Partition(Snapshot(RemoteItem))
          /\ local["products"] = Partition(Snapshot(0))

(***************************************************************************)
(* C23: resetAllData() is not transactional and fails loudly.  When it     *)
(* resolves, no document of the user is left in the remote store.  When    *)
(* getDocs or a deleteDoc fails it rejects with status offline; the        *)
(* deletes that went through stay: each document is as it was or deleted,  *)
(* and nothing is written back.                                            *)
(***************************************************************************)
ResetEnds ==
    /\ ev'.fn = "resetAllData"
    /\ ev'.done
    /\ ev'.commit # "none"

\* the reset that ends is calls[k]: it rejects loudly and rolls nothing back
ResetFailsLoudly(k) ==
    LET uid == calls[k].uid IN
    /\ calls[k].fn = "resetAllData"
    /\ \A u \in Users \ {uid} : remote'[u] = remote[u]
    /\ ev'.commit = "ok" => ev'.outcome = "resolved"
    /\ ev'.commit = "fail" =>
          /\ ev'.outcome = "rejected"
          /\ status' = "offline"
          /\ \A c \in Collections : remote'[uid][c] \in {remote[uid][c], NoPartition}
          /\ Cardinality({c \in Collections : remote'[uid][c] # remote[uid][c]})
                <= ev'.attempts

C24_FetchNeverThrows ==
    [][ev'.fn = "fetchData" =>
          /\ UNCHANGED <<queue, pendingOperations, local, remote, status, isConnected,
                         lastSynced>>
          /\ ev'.outcome # "rejected"
          /\ ~ev'.done => (db /\ user # NoUser)
          /\ ev'.done =>
                /\ ev'.outcome = "resolved"
                /\ ev'.commit = "none" => ((~db \/ user = NoUser) /\ ev'.result = Null)
                /\ ev'.commit = "fail" => ev'.result = Null
                /\ ev'.commit = "ok" =>
                      \E k \in 1..Len(calls) :
                          LET doc == remote[calls[k].uid][ev'.name] IN
                          /\ calls[k].fn = "fetchData"
                          /\ calls[k].name = ev'.name
                          /\ ev'.result =
                                IF doc.present THEN Result(doc.items) ELSE Null]_vars

C24_Witness ==
    /\ ev.fn = "fetchData"
    /\ ev.done
    /\ ev.commit = "fail"
    /\ ev.result = Null
    /\ status = "synced"
    /\ \E u \in Users : remote[u][ev.name].present

(***************************************************************************)
(* C25: round trip.  When saveData(name, X) has written X to the remote    *)
(* store, fetchData(name) is called in the very next step and its getDocs  *)
(* resolves in the step after that, the value returned is X, for the empty *)
(* array as for any other.                                                 *)
(***************************************************************************)
C25_RoundTrip ==
    (ev.fn = "fetchData" /\ ev.done /\ ev.commit = "ok" /\ ev.after.present)
        => ev.result = Result(ev.after.items)

C25_Witness ==
    /\ ev.fn = "fetchData"
    /\ ev.done
    /\ ev.commit = "ok"
    /\ ev.after = Partition(<<>>)
    /\ ev.result = Result(<<>>)

(***************************************************************************)
(* C26: two saveData calls for one collection made with nobody signed in   *)
(* queue two operations: the queue grows by one entry and keeps the ones   *)
(* it had.  When a drain ends, the remote document of the collection it    *)
(* last replayed with success holds exactly the payload of that operation. *)
(***************************************************************************)
QueuedSeparately ==
    (ev'.fn = "saveData" /\ ev'.done /\ ev'.commit = "none"
        /\ Len(queue) < appConfig.maxQueueSize) =>
            /\ Len(queue') = Len(queue) + 1
            /\ SubSeq(queue', 1, Len(queue)) = queue

\* the drain d that ends in this step held no concurrent saveData call
Undisturbed(d) == d.quiet /\ d.since = nSaves

\* the remote store holds the payload of the operation at index last of drain d
HoldsReplayed(d, last) ==
    remote'[d.uid][d.operations[last].collection] = Partition(d.operations[last].data)

C26_LastReplayWins ==
    [][/\ QueuedSeparately
       /\ (ev'.fn = "replay" /\ ev'.done) =>
             \E k \in 1..Len(drains) :
                 LET d    == drains[k]
                     last == IF ev'.commit = "ok" THEN d.i ELSE d.lastOk
                 IN
                 /\ drains' = RemoveAt(drains, k)
                 /\ last > 0 => HoldsReplayed(d, last)]_vars

\* as C26, for a drain during which no saveData call was in flight or made
C26_LastReplayWinsUndisturbed ==
    [][/\ QueuedSeparately
       /\ (ev'.fn = "replay" /\ ev'.done) =>
             \E k \in 1..Len(drains) :
                 LET d    == drains[k]
                     last == IF ev'.commit = "ok" THEN d.i ELSE d.lastOk
                 IN
                 /\ drains' = RemoveAt(drains, k)
                 /\ (Undisturbed(d) /\ last > 0) => HoldsReplayed(d, last)]_vars

C26_Witness ==
    /\ ev.fn = "replay"
    /\ ev.done
    /\ ev.arg = 2
    /\ nSaves = 2
    /\ queue = <<>>
    /\ \E u \in Users : remote[u]["products"] = Partition(Snapshot(2))

(***************************************************************************)
(* C27: retry across drains is per operation.  When the replay of a queued *)
(* operation succeeds, in whichever drain, the remote store holds its      *)
(* payload and the operation is out of the queue; its removal shortens the *)
(* queue by exactly one, and every other entry stays as it is, in order,   *)
(* unless the drain drops it in the same pass for its exhausted budget.    *)
(***************************************************************************)
\* the operations drain d drops after index i without a replay (lines 153-156)
Exhausted(d) ==
    {d.operations[j].id : j \in {j \in DOMAIN d.operations :
                                    j > d.i /\ ~shouldRetry(d.operations[j])}}

C27_PerOperationRetry ==
    [][(ev'.fn = "replay" /\ ev'.commit = "ok") =>
          \E k \in 1..Len(drains) :
              LET d  == drains[k]
                  op == d.operations[d.i]
              IN
              /\ remote'[d.uid][op.collection] = Partition(op.data)
              /\ op.id \notin Ids(queue')
              /\ op.id \in Ids(queue) =>
                    Len(removeFromQueue(queue, op.id)) = Len(queue) - 1
              /\ Ids(queue) \ Ids(queue') \subseteq {op.id} \cup Exhausted(d)
              /\ queue' = SelectSeq(queue, LAMBDA o : o.id \in Ids(queue'))]_vars

C27_Witness ==
    /\ ev.fn = "replay"
    /\ ev.commit = "ok"
    /\ Len(queue) = MaxLen - 1
    /\ \E k \in 1..Len(drains) :
          LET d == drains[k] IN
          /\ d.lastOk = 1
          /\ d.operations[1].retryCount = MaxRetries - 1
          /\ replays[d.operations[1].id] = MaxRetries
          /\ d.operations[1].id \notin Ids(queue)
          /\ remote[d.uid][d.operations[1].collection] = Partition(d.operations[1].data)

(***************************************************************************)
(* C28: the provider starts with status offline and isConnected false.  A  *)
(* run of the connection effect that finds no user or no db, and the error *)
(* callback of the subscription, leave status offline and isConnected      *)
(* false; the snapshot callback leaves status synced and isConnected true. *)
(***************************************************************************)
MonitorSets ==
    /\ ev'.fn = "mount" => (status' = "offline" /\ ~isConnected')
    /\ ev'.fn = "onSnapshotError" => (status' = "offline" /\ ~isConnected')
    /\ (ev'.fn = "connectionEffect" /\ (user' = NoUser \/ ~db' \/ ~isFirebaseConfigured)) =>
            (status' = "offline" /\ ~isConnected')
    /\ ev'.fn = "onSnapshot" => (status' = "synced" /\ isConnected')

C28_ConnectivityMonitor ==
    /\ status = "offline" /\ ~isConnected
    /\ [][MonitorSets]_vars

\* the subscription of u2 has failed after it had delivered a snapshot
C28_Witness ==
    /\ ev.fn = "onSnapshotError"
    /\ user = "u2"
    /\ listener = {[uid |-> "u2", live |-> FALSE]}
    /\ edge
    /\ status = "offline"
    /\ ~isConnected

(***************************************************************************)
(* C29: at every instant there is at most one subscription, and it is the  *)
(* one made for the current user; there is none while no user is signed in *)
(* and none once the provider is unmounted.                                *)
(***************************************************************************)
C29_OneSubscription ==
    /\ Cardinality(listener) <= 1
    /\ \A s \in listener : s.uid = user
    /\ user = NoUser => listener = {}
    /\ ~mounted => listener = {}

\* the user changed from u1 to u2 while a read made for u1 was in flight,
\* and the only subscription is that of u2
C29_Witness ==
    /\ mounted
    /\ user = "u2"
    /\ listener = {onSnapshot("u2")}
    /\ \E k \in 1..Len(calls) : calls[k].uid = "u1"

(***************************************************************************)
(* C30: status is syncing exactly while a remote call of saveData, sync,   *)
(* restore or resetAllData is in flight: it is syncing whenever one is in  *)
(* flight, and synced or offline whenever none is.                         *)
(***************************************************************************)
RemoteCallInFlight ==
    \/ saves # <<>>
    \/ \E k \in 1..Len(calls) : calls[k].fn \in {"sync", "restore", "resetAllData"}

C30_SyncingIffInFlight ==
    /\ RemoteCallInFlight => status = "syncing"
    /\ ~RemoteCallInFlight => status \in {"synced", "offline"}

(***************************************************************************)
(* C31: remote writes to one collection are not put in order.  Whenever    *)
(* the commit of a saveData call resolves, the remote document holds the   *)
(* payload of that call, whatever it held and whichever call was made      *)
(* first; so with two calls in flight together the one that resolves last  *)
(* decides the document.                                                   *)
(***************************************************************************)
C31_LastCompletedWins ==
    [][(ev'.fn = "saveData" /\ ev'.done /\ ev'.commit = "ok") =>
          \E k \in 1..Len(saves) :
              /\ saves' = RemoveAt(saves, k)
              /\ ev'.name = saves[k].collection
              /\ remote'[saves[k].uid][saves[k].collection] = Partition(saves[k].data)
              /\ \A u \in Users, c \in Collections :
                    <<u, c>> # <<saves[k].uid, saves[k].collection>> =>
                        remote'[u][c] = remote[u][c]]_vars

\* both of two saves have been written and none was queued; the second resolved
\* first, the first resolved last: the remote document holds the older snapshot,
\* localStorage the newer
C31_Witness ==
    /\ ev.fn = "saveData" /\ ev.done /\ ev.commit = "ok"
    /\ nSaves = 2
    /\ nextId = 1
    /\ saves = <<>>
    /\ drains = <<>>
    /\ \E u \in Users : remote[u]["products"] = Partition(Snapshot(1))
    /\ local["products"] = Partition(Snapshot(2))

(***************************************************************************)
(* C32: every change a page makes to products, customers or bank accounts  *)
(* is mirrored: the step that stores the new snapshot in localStorage also *)
(* calls saveData with that snapshot, which either starts its remote write *)
(* or puts it in the queue; a snapshot that empties the collection         *)
(* included.                                                               *)
(***************************************************************************)
Mirrored(c) ==
    \/ /\ Len(saves') = Len(saves) + 1
       /\ saves'[Len(saves')].collection = c
       /\ saves'[Len(saves')].data = local'[c].items
    \/ /\ nextId' = nextId + 1
       /\ queue' # <<>>
       /\ queue'[Len(queue')].collection = c
       /\ queue'[Len(queue')].data = local'[c].items

C32_EveryMutationMirrored ==
    [][\A c \in {"products", "customers", "bankAccounts"} :
          (local'[c] # local[c] /\ ev'.fn \in {"saveData", "saveEffect", "sync"}) =>
              Mirrored(c)]_vars

(***************************************************************************)
(* C33: handleReset deletes remotely before it clears locally.  A step in  *)
(* which resetAllData rejects leaves every localStorage key, the queue     *)
(* among them, as it was; a step in which it resolves, and a handleReset   *)
(* run with isConnected false, leave every key removed.                    *)
(***************************************************************************)
C33_RemoteBeforeLocal ==
    [][/\ (ev'.fn = "resetAllData" /\ ev'.done /\ ev'.outcome = "rejected") =>
              (local' = local /\ queue' = queue)
       /\ (\/ ev'.fn = "resetAllData" /\ ev'.done /\ ev'.outcome = "resolved"
           \/ ev'.fn = "handleReset" /\ ev'.done) =>
              (local' = NoWrites /\ queue' = <<>>)]_vars

\* a deleteDoc failed after another went through, and the stored products and
\* the queued operation are still there
C33_Witness ==
    /\ ev.fn = "resetAllData" /\ ev.done /\ ev.outcome = "rejected"
    /\ ev.commit = "fail"
    /\ ev.attempts >= 1
    /\ local["products"].present
    /\ queue # <<>>

(***************************************************************************)
(* C34: after a handleReset run with isConnected false, the cloud data is  *)
(* cleared once the client is connected again: from every state in which   *)
(* isConnected holds thereafter, a state follows in which no remote        *)
(* document of the user is left.                                           *)
(***************************************************************************)
OfflineReset == ev.fn = "handleReset" /\ ev.done

RemoteCleared == \A u \in Users, c \in Collections : ~remote[u][c].present

C34_CloudClearedWhenOnline ==
    [](OfflineReset => [](isConnected => <>RemoteCleared))

(***************************************************************************)
(* C35: a drain never overwrites a later snapshot with an earlier one.     *)
(* Snapshots are numbered in the order of the saveData calls that carry    *)
(* them; whenever a replay resolves, the document it writes did not hold   *)
(* the snapshot of a later call.                                           *)
(***************************************************************************)
\* the document holds the snapshot of a saveData call made after that of data
Later(doc, data) ==
    doc.present /\ doc.items # <<>> /\ data # <<>> /\ doc.items[1] > data[1]

C35_NoStaleOverwrite ==
    [][(ev'.fn = "replay" /\ ev'.commit = "ok") =>
          \A k \in 1..Len(drains) :
              LET d  == drains[k]
                  op == d.operations[d.i]
              IN  ~Later(remote[d.uid][op.collection], op.data)]_vars

(***************************************************************************)
(* C36: while no drain is in progress, the pendingOperations counter is    *)
(* the number of operations stored in the queue.                           *)
(***************************************************************************)
C36_PendingIsQueueLength ==
    (~isProcessingQueue /\ drains = <<>>) => pendingOperations = Len(getQueuedOperations)

(***************************************************************************)
(* C37: a drain writes remotely only for operations that are in the queue  *)
(* at the moment of the write: whenever a step issues the replay of an     *)
(* operation, the stored queue holds that operation after the step.        *)
(***************************************************************************)
C37_ReplaysOnlyQueued ==
    [][\A id \in DOMAIN replays' :
          (id \in DOMAIN replays /\ replays'[id] > replays[id]) =>
              id \in Ids(queue')]_vars

(***************************************************************************)
(* C38: in every reachable state with no user signed in, status is offline *)
(* and isConnected is false.                                               *)
(***************************************************************************)
C38_SignedOutIsOffline ==
    user = NoUser => (status = "offline" /\ ~isConnected)

(***************************************************************************)
(* C39: restore and resetAllData leave the operation queue as it was, in   *)
(* every outcome: each step of either function ends with the queue it      *)
(* started with, payloads and retry counts included.                       *)
(***************************************************************************)
C39_QueueUnchanged ==
    [][ev'.fn \in {"restore", "resetAllData"} => queue' = queue]_vars

(***************************************************************************)
(* C39, amended: the queue is left as it was by every step of restore and  *)
(* by every step of resetAllData but the one in which it resolves; there   *)
(* handleReset, its caller, goes on to remove the queue with the other     *)
(* local keys.                                                             *)
(***************************************************************************)
C39_QueueKeptButByReset ==
    [][/\ ev'.fn = "restore" => queue' = queue
       /\ (ev'.fn = "resetAllData" /\ ev'.outcome # "resolved") => queue' = queue
       /\ (ev'.fn = "resetAllData" /\ ev'.outcome = "resolved") => queue' = <<>>]_vars

\* the page has reloaded after a restore and the operation that had failed once
\* is still stored with its retry count
C39_Witness ==
    /\ ev.fn = "restore" /\ ev.done /\ ev.outcome = "resolved"
    /\ queue # <<>>
    /\ queue[1].retryCount > 0
    /\ pendingOperations = Len(queue)

(***************************************************************************)
(* C40: the drain guard is always released.  The flag isProcessingQueue is *)
(* set only while a drain is suspended at a replay; the step that ends a   *)
(* drain leaves it false; and once set it is cleared again: every drain    *)
(* that starts finishes.                                                   *)
(***************************************************************************)
C40_GuardReleased ==
    /\ [](isProcessingQueue => drains # <<>>)
    /\ [][Len(drains') < Len(drains) => ~isProcessingQueue']_vars
    /\ (isProcessingQueue ~> ~isProcessingQueue)

\* a drain has ended with operations left, and one of them had been replayed by
\* an earlier drain: the guard let a later drain run
C40_Witness ==
    /\ ev.fn = "replay" /\ ev.done
    /\ ~isProcessingQueue
    /\ drains = <<>>
    /\ queue # <<>>
    /\ \E id \in DOMAIN replays : replays[id] >= 2


====
